---- MODULE Spec2Model ----
(***************************************************************************)
(* Submarine navigation kata (src/src/submarine.ts).                       *)
(*                                                                         *)
(* Texts (command strings, map keys) are sequences of one-character        *)
(* strings, so that formatting and parsing are computed, not assumed.      *)
(***************************************************************************)
EXTENDS Integers, Sequences, FiniteSets, TLC

VARIABLES
    sub1,             \* SubmarinePart1 instance: [horizontal, depth]
    call1,            \* last executeCommand call on sub1: [text, outcome]
    sub2,             \* SubmarinePart2 instance: [horizontal, depth, aim]
    call2,            \* last executeCommand call on sub2: [text, outcome]
    scannerData,      \* contents of scanner-data.json: key -> 9 characters
    horizontal,       \* SubmarinePart3 (inherited from SubmarinePart2)
    depth,            \* SubmarinePart3 (inherited from SubmarinePart2)
    aim,              \* SubmarinePart3 (inherited from SubmarinePart2)
    visitedPositions, \* SubmarinePart3.visitedPositions.visitedPositions
    scannedData,      \* SubmarinePart3.scannedData
    mapPoints,        \* SubmarinePart3.mapPoints: key -> character
    calls,            \* executeCommand calls made on the SubmarinePart3: [text, outcome]
    dimensions,       \* value returned by getMapDimensions() in this state, or NoResult
    grid,             \* value returned by buildMap() in this state, or NoGrid
    output,           \* lines written by printMap() in this state, or NoOutput
    first,            \* what an earlier SubmarinePart3 run ended with, or NoRun
    parsed,           \* the text last given to parseCommand and what came of it
    held,             \* the value a caller holds from an accessor, or NoHandle
    commands,         \* the command list given to every navigation approach
    results,          \* what each approach returned for commands, or NoResults
    sign,             \* positions before the last command, and twin instances
    machine,          \* StateMachineSubmarine: [context, call, count]
    memento,          \* MementoSubmarine with its SubmarineCaretaker
    observable,       \* ObservableSubmarine with its position observers
    chain,            \* ChainOfResponsibilitySubmarine
    limited,          \* ConfigurableSubmarine, ValidationDecorator, MilitarySubmarine
    commander,        \* CommandPatternSubmarine: [state, history, ...]
    factory,          \* the submarine SubmarineFactory made for its caller
    decorator,        \* createDecoratedSubmarine(options) and a BasicSubmarine
    heap,             \* the position objects of a MementoSubmarine and its mementos
    ordered           \* ObservableSubmarine with the order of its effects

part1vars == <<sub1, call1>>
part2vars == <<sub2, call2>>
readvars == <<grid, output>>
part3vars == <<scannerData, horizontal, depth, aim, visitedPositions,
               scannedData, mapPoints, calls, dimensions, readvars>>
morevars == <<commander, factory, decorator, heap, ordered>>
patternvars == <<sign, machine, memento, observable, chain, limited, morevars>>
comparevars == <<first, parsed, held, commands, results>>
auxvars == <<comparevars, patternvars>>
vars == <<sub1, call1, sub2, call2, scannerData, horizontal, depth, aim,
          visitedPositions, scannedData, mapPoints, calls, dimensions,
          grid, output, first, parsed, held, commands, results, patternvars>>

----------------------------------------------------------------------------
(* Bounds of the model *)

\* largest |value| of the commands given to SubmarinePart1 / SubmarinePart2
MaxValue == 2
\* largest |horizontal|, |depth|, |aim| explored for SubmarinePart1 / SubmarinePart2
MaxNav == 4
\* largest number of executeCommand calls on the SubmarinePart3
MaxCmds == 3
\* largest number of keys put into the map through getMapPoints()
MaxKeys == 3

----------------------------------------------------------------------------
(* Texts *)

Abs(n) == IF n < 0 THEN -n ELSE n

DigitChars == <<"0", "1", "2", "3", "4", "5", "6", "7", "8", "9">>

IsDigit(c) == \E i \in 1..10 : DigitChars[i] = c

DigitValue(c) == (CHOOSE i \in 1..10 : DigitChars[i] = c) - 1

WhiteSpace == {" ", "\t", "\n"}

RECURSIVE NatToText(_)
\* decimal digits of a natural number, as Number.prototype.toString writes them
NatToText(n) ==
    IF n < 10 THEN <<DigitChars[n + 1]>>
    ELSE NatToText(n \div 10) \o <<DigitChars[(n % 10) + 1]>>

\* `${n}` for an integer n
IntToText(n) == IF n < 0 THEN <<"-">> \o NatToText(-n) ELSE NatToText(n)

RECURSIVE TrimLeft(_)
TrimLeft(s) ==
    IF s # <<>> /\ Head(s) \in WhiteSpace THEN TrimLeft(Tail(s)) ELSE s

RECURSIVE TrimRight(_)
TrimRight(s) ==
    IF s # <<>> /\ s[Len(s)] \in WhiteSpace
    THEN TrimRight(SubSeq(s, 1, Len(s) - 1)) ELSE s

\* String.prototype.trim
Trim(s) == TrimRight(TrimLeft(s))

RECURSIVE SplitFrom(_, _, _)
\* String.prototype.split(' '): every single space separates two parts
SplitFrom(s, i, cur) ==
    IF i > Len(s) THEN <<cur>>
    ELSE IF s[i] = " " THEN <<cur>> \o SplitFrom(s, i + 1, <<>>)
    ELSE SplitFrom(s, i + 1, Append(cur, s[i]))

Split(s) == SplitFrom(s, 1, <<>>)

RECURSIVE DigitRun(_, _)
\* number of consecutive digits of s starting at index i
DigitRun(s, i) ==
    IF i <= Len(s) /\ IsDigit(s[i]) THEN 1 + DigitRun(s, i + 1) ELSE 0

RECURSIVE DigitsValue(_, _, _)
\* value of the n digits of s starting at index i, read left to right
DigitsValue(s, i, n) ==
    IF n = 0 THEN 0
    ELSE 10 * DigitsValue(s, i, n - 1) + DigitValue(s[i + n - 1])

NaN == [nan |-> TRUE, value |-> 0]

\* parseInt(s, 10): leading white space, an optional sign, then the longest
\* run of digits; whatever follows the digits is ignored; no digit gives NaN
parseInt(s) ==
    LET t    == TrimLeft(s)
        sgn  == IF t # <<>> /\ t[1] \in {"+", "-"} THEN 1 ELSE 0
        n    == DigitRun(t, sgn + 1)
        v    == DigitsValue(t, sgn + 1, n)
    IN  IF n = 0 THEN NaN
        ELSE [nan |-> FALSE, value |-> IF sgn = 1 /\ t[1] = "-" THEN -v ELSE v]

----------------------------------------------------------------------------
(* parseCommand *)

Directions == {"forward", "down", "up"}

DirectionText(d) ==
    CASE d = "forward" -> <<"f", "o", "r", "w", "a", "r", "d">>
      [] d = "down"    -> <<"d", "o", "w", "n">>
      [] d = "up"      -> <<"u", "p">>

ParseFailure == [ok |-> FALSE, direction |-> "none", value |-> 0]

parseCommand(commandStr) ==
    LET parts == Split(Trim(commandStr)) IN
    IF Len(parts) # 2 THEN ParseFailure
    ELSE LET value == parseInt(parts[2]) IN
         IF value.nan THEN ParseFailure
         ELSE IF ~ \E d \in Directions : DirectionText(d) = parts[1]
              THEN ParseFailure
              ELSE [ok |-> TRUE,
                    direction |-> CHOOSE d \in Directions : DirectionText(d) = parts[1],
                    value |-> value.value]

\* the text "<direction> <value>"
CommandText(d, v) == DirectionText(d) \o <<" ">> \o IntToText(v)

\* texts that parseCommand rejects: one token, unknown direction, no number
MalformedTexts ==
    { DirectionText("forward"),
      <<"i", "n", "v", "a", "l", "i", "d", " ", "5">>,
      DirectionText("down") \o <<" ", "x">> }

NoCall == [text |-> <<>>, outcome |-> "none"]

----------------------------------------------------------------------------
(* SubmarinePart1 *)

\* a transition in which up moves deeper
Part1ApplyUpAdds(s, command) ==
    CASE command.direction = "forward" ->
            [s EXCEPT !.horizontal = s.horizontal + command.value]
      [] command.direction = "down" ->
            [s EXCEPT !.depth = s.depth + command.value]
      [] command.direction = "up" ->
            [s EXCEPT !.depth = s.depth + command.value]

\* the switch of SubmarinePart1.executeCommand
Part1Apply(s, command) ==
    CASE command.direction = "forward" ->
            [s EXCEPT !.horizontal = s.horizontal + command.value]
      [] command.direction = "down" ->
            [s EXCEPT !.depth = s.depth + command.value]
      [] command.direction = "up" ->
            [s EXCEPT !.depth = s.depth - command.value]

InNav(n) == Abs(n) <= MaxNav

NavTexts ==
    { CommandText(d, v) : d \in Directions, v \in (-MaxValue)..MaxValue }
        \cup MalformedTexts

\* what executeCommand does to the SubmarinePart1 it is called on
Part1Execute(commandStr) ==
    LET command == parseCommand(commandStr) IN
    /\ IF ~ command.ok
       THEN /\ call1' = [text |-> commandStr, outcome |-> "ParseError"]
            /\ sub1' = sub1
       ELSE /\ call1' = [text |-> commandStr, outcome |-> "ok"]
            /\ sub1' = Part1Apply(sub1, command)
    /\ InNav(sub1'.horizontal) /\ InNav(sub1'.depth)

Part1ExecuteCommand(commandStr) ==
    /\ Part1Execute(commandStr)
    /\ UNCHANGED <<part2vars, part3vars, auxvars>>

----------------------------------------------------------------------------
(* SubmarinePart2 *)

\* a transition in which forward uses the aim after adding the value to it
Part2ApplyAimFirst(s, command) ==
    CASE command.direction = "forward" ->
            [s EXCEPT !.horizontal = s.horizontal + command.value,
                      !.depth = s.depth + (s.aim + command.value) * command.value]
      [] command.direction = "down" ->
            [s EXCEPT !.aim = s.aim + command.value]
      [] command.direction = "up" ->
            [s EXCEPT !.aim = s.aim - command.value]

\* a transition in which down moves the aim by the magnitude of the value
Part2ApplyDownMagnitude(s, command) ==
    CASE command.direction = "forward" ->
            [s EXCEPT !.horizontal = s.horizontal + command.value,
                      !.depth = s.depth + s.aim * command.value]
      [] command.direction = "down" ->
            [s EXCEPT !.aim = s.aim + Abs(command.value)]
      [] command.direction = "up" ->
            [s EXCEPT !.aim = s.aim - command.value]

\* the switch of SubmarinePart2.executeCommand
Part2Apply(s, command) ==
    CASE command.direction = "forward" ->
            [s EXCEPT !.horizontal = s.horizontal + command.value,
                      !.depth = s.depth + s.aim * command.value]
      [] command.direction = "down" ->
            [s EXCEPT !.aim = s.aim + command.value]
      [] command.direction = "up" ->
            [s EXCEPT !.aim = s.aim - command.value]

\* what executeCommand does to the SubmarinePart2 it is called on
Part2Execute(commandStr) ==
    LET command == parseCommand(commandStr) IN
    /\ IF ~ command.ok
       THEN /\ call2' = [text |-> commandStr, outcome |-> "ParseError"]
            /\ sub2' = sub2
       ELSE /\ call2' = [text |-> commandStr, outcome |-> "ok"]
            /\ sub2' = Part2Apply(sub2, command)
    /\ InNav(sub2'.horizontal) /\ InNav(sub2'.depth) /\ InNav(sub2'.aim)

Part2ExecuteCommand(commandStr) ==
    /\ Part2Execute(commandStr)
    /\ UNCHANGED <<part1vars, part3vars, auxvars>>

----------------------------------------------------------------------------
(* Scan Source: checkScanner over scanner-data.json *)

\* the key `(${x},${y})`
FormatKey(x, y) == <<"(">> \o IntToText(x) \o <<",">> \o IntToText(y) \o <<")">>

null == <<>>

checkScanner(position) ==
    LET key == FormatKey(position.horizontal, position.depth) IN
    IF key \in DOMAIN scannerData THEN scannerData[key] ELSE null

\* the samples a scanner-data.json of the model may hold
DistinctSample == <<"a", "b", "c", "d", "e", "f", "g", "h", "i">>
UniformSample == <<"#", "#", "#", "#", "#", "#", "#", "#", "#">>
Samples == {DistinctSample, UniformSample}

\* the coordinates at which a scanner-data.json of the model may hold a sample
ScanPositions == {<<0, 0>>, <<1, 0>>, <<10, 10>>}

ScanKeys(D) == { FormatKey(p[1], p[2]) : p \in D }

\* every scanner-data.json of the model: some of ScanPositions, each with a sample
ScannerChoices ==
    UNION { [ScanKeys(D) -> Samples] : D \in SUBSET ScanPositions }

NoScannerData == [k \in {} |-> DistinctSample]

----------------------------------------------------------------------------
(* SubmarinePart3 *)

\* a push that skips a position equal to the last one logged
recordPositionSkipRepeat(log, pos) ==
    IF log[Len(log)] = [horizontal |-> pos.horizontal, depth |-> pos.depth]
    THEN log
    ELSE Append(log, [horizontal |-> pos.horizontal, depth |-> pos.depth])

\* a push that logs the two coordinates the wrong way round
recordPositionSwapped(log, pos) ==
    Append(log, [horizontal |-> pos.depth, depth |-> pos.horizontal])

\* the push of the new position onto the visited log
recordPosition(log, pos) ==
    Append(log, [horizontal |-> pos.horizontal, depth |-> pos.depth])

\* a collectScanData that skips a position already in the scan list
collectScanDataOnce(list, position) ==
    LET scanResult == checkScanner(position)
        at == [horizontal |-> position.horizontal, depth |-> position.depth] IN
    IF scanResult # null /\ \A i \in 1..Len(list) : list[i].position # at
    THEN Append(list, [position |-> at, scanResult |-> scanResult])
    ELSE list

\* the scan list after collectScanData(position)
collectScanData(list, position) ==
    LET scanResult == checkScanner(position) IN
    IF scanResult # null
    THEN Append(list, [position |-> [horizontal |-> position.horizontal,
                                     depth |-> position.depth],
                       scanResult |-> scanResult])
    ELSE list

\* Map.prototype.set that keeps the character a key already has
MapSetKeepFirst(m, key, char) ==
    [k \in DOMAIN m \cup {key} |-> IF k \in DOMAIN m THEN m[k] ELSE char]

\* Map.prototype.set
MapSet(m, key, char) ==
    [k \in DOMAIN m \cup {key} |-> IF k = key THEN char ELSE m[k]]

\* the offsets with rows and columns exchanged
offsetsTransposed ==
    << <<-1, -1>>, <<-1, 0>>, <<-1, 1>>,
       << 0, -1>>, << 0, 0>>, << 0, 1>>,
       << 1, -1>>, << 1, 0>>, << 1, 1>> >>

\* [xOffset, yOffset] of scanResult[index], index from 0
offsets ==
    << <<-1, -1>>, <<0, -1>>, <<1, -1>>,
       <<-1,  0>>, <<0,  0>>, <<1,  0>>,
       <<-1,  1>>, <<0,  1>>, <<1,  1>> >>

RECURSIVE translateFrom(_, _, _)
\* scanResult.forEach from the given index (from 0) on
translateFrom(m, scanData, index) ==
    IF index >= Len(scanData.scanResult) THEN m
    ELSE LET absoluteX == scanData.position.horizontal + offsets[index + 1][1]
             absoluteY == scanData.position.depth + offsets[index + 1][2]
             key == FormatKey(absoluteX, absoluteY)
         IN  translateFrom(MapSet(m, key, scanData.scanResult[index + 1]),
                           scanData, index + 1)

\* a projection that starts from an empty map
translateScanToMapAfresh(m, scanData) ==
    translateFrom([k \in {} |-> " "], scanData, 0)

translateScanToMap(m, scanData) == translateFrom(m, scanData, 0)

EmptyMap == [k \in {} |-> " "]

NoResult == [width |-> -1, height |-> -1, minX |-> 0, maxX |-> 0,
             minY |-> 0, maxY |-> 0]

NoGrid == [called |-> FALSE, threw |-> FALSE, rows |-> <<>>]

NoOutput == [called |-> FALSE, threw |-> FALSE, lines |-> <<>>]

\* the texts given to the SubmarinePart3
Part3Texts ==
    { CommandText("forward", 1), CommandText("forward", -1),
      CommandText("forward", 0), CommandText("forward", 10),
      CommandText("down", 1), CommandText("up", 1),
      <<"i", "n", "v", "a", "l", "i", "d", " ", "5">> }

\* new SubmarinePart3() over the given scanner-data.json
Part3Constructed(data) ==
    /\ scannerData = data
    /\ horizontal = 0
    /\ depth = 0
    /\ aim = 0
    /\ visitedPositions = <<[horizontal |-> 0, depth |-> 0]>>
    /\ scannedData = collectScanData(<<>>, [horizontal |-> 0, depth |-> 0, aim |-> 0])
    /\ mapPoints = EmptyMap
    /\ calls = <<>>
    /\ dimensions = NoResult
    /\ grid = NoGrid
    /\ output = NoOutput

\* an executeCommand that logs the position before the text is parsed
Part3ExecuteCommandRecordsFirst(commandStr) ==
    LET command == parseCommand(commandStr) IN
    /\ Len(calls) < MaxCmds
    /\ dimensions' = NoResult
    /\ grid' = NoGrid
    /\ output' = NoOutput
    /\ UNCHANGED <<scannerData, part1vars, part2vars, auxvars>>
    /\ IF ~ command.ok
       THEN /\ calls' = Append(calls, [text |-> commandStr, outcome |-> "ParseError"])
            /\ visitedPositions' =
                  recordPosition(visitedPositions,
                                 [horizontal |-> horizontal, depth |-> depth])
            /\ UNCHANGED <<horizontal, depth, aim, scannedData, mapPoints>>
       ELSE LET pos == Part2Apply([horizontal |-> horizontal, depth |-> depth,
                                   aim |-> aim], command)
                list == collectScanData(scannedData, pos)
            IN  /\ horizontal' = pos.horizontal
                /\ depth' = pos.depth
                /\ aim' = pos.aim
                /\ visitedPositions' = recordPosition(visitedPositions, pos)
                /\ scannedData' = list
                /\ IF Len(list) = 0
                   THEN /\ mapPoints' = mapPoints
                        /\ calls' = Append(calls, [text |-> commandStr,
                                                   outcome |-> "TypeError"])
                   ELSE /\ mapPoints' = translateScanToMap(mapPoints, list[Len(list)])
                        /\ calls' = Append(calls, [text |-> commandStr,
                                                   outcome |-> "ok"])

\* SubmarinePart3.executeCommand: super.executeCommand, the push onto the
\* visited log, collectScanData, then translateScanToMap of the LAST entry of
\* scannedData; with scannedData empty that entry is undefined and the
\* destructuring in translateScanToMap raises a TypeError
Part3ExecuteCommand(commandStr) ==
    LET command == parseCommand(commandStr) IN
    /\ Len(calls) < MaxCmds
    /\ dimensions' = NoResult
    /\ grid' = NoGrid
    /\ output' = NoOutput
    /\ UNCHANGED <<scannerData, part1vars, part2vars, auxvars>>
    /\ IF ~ command.ok
       THEN /\ calls' = Append(calls, [text |-> commandStr, outcome |-> "ParseError"])
            /\ UNCHANGED <<horizontal, depth, aim, visitedPositions,
                           scannedData, mapPoints>>
       ELSE LET pos == Part2Apply([horizontal |-> horizontal, depth |-> depth,
                                   aim |-> aim], command)
                list == collectScanData(scannedData, pos)
            IN  /\ horizontal' = pos.horizontal
                /\ depth' = pos.depth
                /\ aim' = pos.aim
                /\ visitedPositions' = recordPosition(visitedPositions, pos)
                /\ scannedData' = list
                /\ IF Len(list) = 0
                   THEN /\ mapPoints' = mapPoints
                        /\ calls' = Append(calls, [text |-> commandStr,
                                                   outcome |-> "TypeError"])
                   ELSE /\ mapPoints' = translateScanToMap(mapPoints, list[Len(list)])
                        /\ calls' = Append(calls, [text |-> commandStr,
                                                   outcome |-> "ok"])

----------------------------------------------------------------------------
(* getMapDimensions *)

NoMatch == [found |-> FALSE, x |-> <<>>, y |-> <<>>]

\* the regular expression \((-?\d+),(-?\d+)\) tried at index i of key
MatchAt(key, i) ==
    LET s1 == IF i + 1 <= Len(key) /\ key[i + 1] = "-" THEN 1 ELSE 0
        n1 == DigitRun(key, i + 1 + s1)
        c  == i + 1 + s1 + n1
        s2 == IF c + 1 <= Len(key) /\ key[c + 1] = "-" THEN 1 ELSE 0
        n2 == DigitRun(key, c + 1 + s2)
        e  == c + 1 + s2 + n2
    IN  IF /\ key[i] = "("
           /\ n1 >= 1
           /\ c <= Len(key) /\ key[c] = ","
           /\ n2 >= 1
           /\ e <= Len(key) /\ key[e] = ")"
        THEN [found |-> TRUE, x |-> SubSeq(key, i + 1, c - 1),
              y |-> SubSeq(key, c + 1, e - 1)]
        ELSE NoMatch

\* key.match(/\((-?\d+),(-?\d+)\)/): the leftmost match
KeyMatch(key) ==
    LET starts == { i \in 1..Len(key) : MatchAt(key, i).found } IN
    IF starts = {} THEN NoMatch
    ELSE MatchAt(key, CHOOSE i \in starts : \A j \in starts : i <= j)

\* a reading of the key that drops the minus signs
KeyCoordinateUnsigned(key) ==
    LET match == KeyMatch(key) IN
    IF ~ match.found THEN [x |-> 0, y |-> 0]
    ELSE [x |-> Abs(parseInt(match.x).value), y |-> Abs(parseInt(match.y).value)]

\* the {x, y} that buildMap / getMapDimensions compute for a key
KeyCoordinate(key) ==
    LET match == KeyMatch(key) IN
    IF ~ match.found THEN [x |-> 0, y |-> 0]
    ELSE [x |-> parseInt(match.x).value, y |-> parseInt(match.y).value]

SetMin(S) == CHOOSE n \in S : \A m \in S : n <= m
SetMax(S) == CHOOSE n \in S : \A m \in S : n >= m

getMapDimensions(m) ==
    IF Cardinality(DOMAIN m) = 0
    THEN [width |-> 0, height |-> 0, minX |-> 0, maxX |-> 0, minY |-> 0, maxY |-> 0]
    ELSE LET xs == { KeyCoordinate(key).x : key \in DOMAIN m }
             ys == { KeyCoordinate(key).y : key \in DOMAIN m }
             minX == SetMin(xs)
             maxX == SetMax(xs)
             minY == SetMin(ys)
             maxY == SetMax(ys)
         IN  [width |-> maxX - minX + 1, height |-> maxY - minY + 1,
              minX |-> minX, maxX |-> maxX, minY |-> minY, maxY |-> maxY]

\* sub.getMapDimensions()
GetMapDimensions ==
    /\ dimensions = NoResult
    /\ dimensions' = getMapDimensions(mapPoints)
    /\ grid' = NoGrid
    /\ output' = NoOutput
    /\ UNCHANGED <<part1vars, part2vars, auxvars, scannerData, horizontal, depth, aim,
                   visitedPositions, scannedData, mapPoints, calls>>

\* the coordinates of the keys put into the map through getMapPoints()
KeyXs == -2..2
KeyYs == -1..3

\* getMapPoints() returns the internal Map itself, so a caller can write to it:
\* sub.getMapPoints().set(`(${x},${y})`, char)
MapPointsSet(x, y, char) ==
    /\ Cardinality(DOMAIN mapPoints \cup {FormatKey(x, y)}) <= MaxKeys
    /\ mapPoints' = MapSet(mapPoints, FormatKey(x, y), char)
    /\ dimensions' = NoResult
    /\ grid' = NoGrid
    /\ output' = NoOutput
    /\ UNCHANGED <<part1vars, part2vars, auxvars, scannerData, horizontal, depth, aim,
                   visitedPositions, scannedData, calls>>

\* sub.getMapPoints().clear()
MapPointsClear ==
    /\ mapPoints # EmptyMap
    /\ mapPoints' = EmptyMap
    /\ dimensions' = NoResult
    /\ grid' = NoGrid
    /\ output' = NoOutput
    /\ UNCHANGED <<part1vars, part2vars, auxvars, scannerData, horizontal, depth, aim,
                   visitedPositions, scannedData, calls>>

----------------------------------------------------------------------------
(* buildMap / printMap *)

RECURSIVE Blanks(_)
\* Array.from({ length: n }, () => ' ')
Blanks(n) == IF n <= 0 THEN <<>> ELSE Append(Blanks(n - 1), " ")

RECURSIVE BlankRows(_, _)
\* Array.from({ length: height }, () => Array.from({ length: width }, () => ' '))
BlankRows(height, width) ==
    IF height <= 0 THEN <<>>
    ELSE Append(BlankRows(height - 1, width), Blanks(width))

\* row[index] = char on a JavaScript array, index from 0: an index past the
\* end lengthens the array, a negative index only adds a property
ArrayWrite(row, index, char) ==
    IF index < 0 THEN row
    ELSE IF index < Len(row) THEN [row EXCEPT ![index + 1] = char]
    ELSE row \o [k \in 1..(index - Len(row)) |-> "undefined"] \o <<char>>

\* a write that exchanges the row and the column index
GridWriteTransposed(g, mapX, mapY, char) ==
    IF g.threw \/ mapX < 0 \/ mapX >= Len(g.rows)
    THEN [g EXCEPT !.threw = TRUE]
    ELSE [g EXCEPT !.rows[mapX + 1] = ArrayWrite(g.rows[mapX + 1], mapY, char)]

\* map[mapY][mapX] = char; map[mapY] is undefined outside the rows and the
\* write then raises a TypeError
GridWrite(g, mapX, mapY, char) ==
    IF g.threw \/ mapY < 0 \/ mapY >= Len(g.rows)
    THEN [g EXCEPT !.threw = TRUE]
    ELSE [g EXCEPT !.rows[mapY + 1] = ArrayWrite(g.rows[mapY + 1], mapX, char)]

RECURSIVE fillMap(_, _, _, _, _)
\* this.mapPoints.forEach over the given keys
fillMap(g, m, keys, minX, minY) ==
    IF keys = {} THEN g
    ELSE LET key == CHOOSE k \in keys : TRUE
             match == KeyMatch(key)
             next ==
                IF match.found
                THEN GridWrite(g, parseInt(match.x).value - minX,
                               parseInt(match.y).value - minY, m[key])
                ELSE g
         IN  fillMap(next, m, keys \ {key}, minX, minY)

\* a grid with as many rows as columns
gridOfSquare(m, minX, maxX, minY, maxY) ==
    fillMap([called |-> TRUE, threw |-> FALSE,
             rows |-> BlankRows(maxX - minX + 1, maxX - minX + 1)],
            m, DOMAIN m, minX, minY)

\* the grid of height maxY - minY + 1 rows of width maxX - minX + 1 spaces,
\* filled from the map
gridOf(m, minX, maxX, minY, maxY) ==
    fillMap([called |-> TRUE, threw |-> FALSE,
             rows |-> BlankRows(maxY - minY + 1, maxX - minX + 1)],
            m, DOMAIN m, minX, minY)

\* the boundaries of the coordinates xs, ys, then the grid
buildMapOver(m, xs, ys) ==
    gridOf(m, SetMin(xs), SetMax(xs), SetMin(ys), SetMax(ys))

buildMap(m) ==
    IF Cardinality(DOMAIN m) = 0
    THEN [called |-> TRUE, threw |-> FALSE, rows |-> <<>>]
    ELSE buildMapOver(m, { KeyCoordinate(key).x : key \in DOMAIN m },
                      { KeyCoordinate(key).y : key \in DOMAIN m })

NoDataLine ==
    <<"N", "o", " ", "m", "a", "p", " ", "d", "a", "t", "a", " ",
      "a", "v", "a", "i", "l", "a", "b", "l", "e">>

TitleLine ==
    <<"\n", "=", "=", "=", " ", "S", "C", "A", "N", "N", "E", "D", " ",
      "M", "A", "P", " ", "=", "=", "=">>

ClosingLine ==
    <<"=", "=", "=", "=", "=", "=", "=", "=", "=", "=", "=", "=", "=", "=",
      "=", "=", "=", "=", "=", "\n">>

\* console output that frames an empty grid like any other
printRowsAlwaysFramed(map) ==
    IF map.threw THEN [called |-> TRUE, threw |-> TRUE, lines |-> <<>>]
    ELSE [called |-> TRUE, threw |-> FALSE,
          lines |-> <<TitleLine>> \o map.rows \o <<ClosingLine>>]

\* the console.log lines of printMap for the grid buildMap returned;
\* row.join('') of one-character cells is the row itself
printRows(map) ==
    IF map.threw THEN [called |-> TRUE, threw |-> TRUE, lines |-> <<>>]
    ELSE IF Len(map.rows) = 0
    THEN [called |-> TRUE, threw |-> FALSE, lines |-> <<NoDataLine>>]
    ELSE [called |-> TRUE, threw |-> FALSE,
          lines |-> <<TitleLine>> \o map.rows \o <<ClosingLine>>]

printMap(m) == printRows(buildMap(m))

\* sub.buildMap()
BuildMap ==
    /\ grid = NoGrid
    /\ grid' = buildMap(mapPoints)
    /\ dimensions' = NoResult
    /\ output' = NoOutput
    /\ UNCHANGED <<part1vars, part2vars, auxvars, scannerData, horizontal, depth, aim,
                   visitedPositions, scannedData, mapPoints, calls>>

\* sub.printMap()
PrintMap ==
    /\ output = NoOutput
    /\ output' = printMap(mapPoints)
    /\ dimensions' = NoResult
    /\ grid' = NoGrid
    /\ UNCHANGED <<part1vars, part2vars, auxvars, scannerData, horizontal, depth, aim,
                   visitedPositions, scannedData, mapPoints, calls>>

----------------------------------------------------------------------------
(* Specifications *)

NoRun == [done |-> FALSE, visitedPositions |-> <<>>, mapPoints |-> EmptyMap,
          calls |-> <<>>]

NoParse == [called |-> FALSE, text |-> <<>>, result |-> ParseFailure]

NoHandle == [kind |-> "none"]

NoResults == [done |-> FALSE]

\* a caller keeps, for a SubmarinePart1 and a SubmarinePart2, the position
\* each had before its last command, and a twin instance of each class
NoSign ==
    [before1 |-> [horizontal |-> 0, depth |-> 0],
     twin1   |-> [horizontal |-> 0, depth |-> 0],
     before2 |-> [horizontal |-> 0, depth |-> 0, aim |-> 0],
     twin2   |-> [horizontal |-> 0, depth |-> 0, aim |-> 0]]

DiveThreshold == 5

\* new StateMachineSubmarine(), before any call
NoMachine ==
    [context |-> [currentState |-> "SURFACED",
                  position |-> [horizontal |-> 0, depth |-> 0, aim |-> 0]],
     call |-> [text |-> <<>>, outcome |-> "none", message |-> <<>>],
     count |-> 0]

\* new MementoSubmarine() and new SubmarineCaretaker(), and what their
\* caller has seen: the last call made, and the submarine's position and
\* the caretaker's index right after each of the last two save/restore
NoMemento ==
    [position |-> [horizontal |-> 0, depth |-> 0, aim |-> 0],
     mementos |-> <<>>,
     currentIndex |-> -1,
     last |-> [op |-> "none", returned |-> "none"],
     settled |-> [position |-> [horizontal |-> 0, depth |-> 0, aim |-> 0],
                  currentIndex |-> -1],
     settledBefore |-> [position |-> [horizontal |-> 0, depth |-> 0, aim |-> 0],
                        currentIndex |-> -1],
     ops |-> 0]
\* the PositionLogger objects a caller has made
Loggers == {"logger1", "logger2"}

\* new ObservableSubmarine() and new PositionLogger() for each logger; the
\* caller holds no unsubscribe function and counts no logger as subscribed
NoObservable ==
    [position |-> [horizontal |-> 0, depth |-> 0, aim |-> 0],
     positionObservers |-> {},
     commandObservers |-> {},
     log |-> [o \in Loggers |-> <<>>],
     unsubscribes |-> {},
     subscribed |-> {},
     call |-> NoCall,
     count |-> 0]
NoMessage == [text |-> "", args |-> <<>>]

\* the chain the constructor of ChainOfResponsibilitySubmarine links, first
\* handler first; an option that is undefined or 0 adds no handler
BuildChain(options) ==
    LET execution == <<"ExecutionHandler">>
        withSpeed == IF options.maxSpeed # 0
                     THEN <<"SpeedLimitHandler">> \o execution ELSE execution
        withDepth == IF options.maxDepth # 0
                     THEN <<"DepthLimitHandler">> \o withSpeed ELSE withSpeed
    IN  IF options.logging THEN <<"LoggingHandler">> \o withDepth ELSE withDepth

\* new ChainOfResponsibilitySubmarine(options); an option left out is 0 or FALSE
ChainConstructed(options) ==
    [options |-> options,
     handlers |-> BuildChain(options),
     position |-> [horizontal |-> 0, depth |-> 0, aim |-> 0],
     logs |-> <<>>,
     call |-> [text |-> <<>>, outcome |-> "none", message |-> NoMessage],
     count |-> 0]

\* new ChainOfResponsibilitySubmarine()
NoChain == ChainConstructed([maxDepth |-> 0, maxSpeed |-> 0, logging |-> FALSE])
BuilderMaxSpeed == 100
MilitaryMaxDepth == 1000
MilitaryMaxSpeed == 50

NoLimitedCall == [text |-> <<>>, outcome |-> "none", message |-> NoMessage]

\* new SubmarineBuilder().setMaxDepth(maxDepth).enableLogging()
\* .enableTelemetry().build(): no observer and no validation rule is added
BuildConfig(maxDepth) ==
    [initialPosition |-> [horizontal |-> 0, depth |-> 0, aim |-> 0],
     maxDepth |-> maxDepth,
     maxSpeed |-> BuilderMaxSpeed,
     enableLogging |-> TRUE,
     enableTelemetry |-> TRUE,
     observers |-> <<>>,
     validationRules |-> <<>>]

\* new ConfigurableSubmarine(config)
ConfigurableConstructed(config) ==
    [config |-> config,
     position |-> config.initialPosition,
     commandLog |-> <<>>,
     commandCount |-> 0,
     call |-> NoLimitedCall]

\* createDecoratedSubmarine({ validation: { maxDepth } }): a
\* ValidationDecorator around a BasicSubmarine
DecoratedConstructed(maxDepth) ==
    [maxDepth |-> maxDepth,
     position |-> [horizontal |-> 0, depth |-> 0, aim |-> 0],
     call |-> NoLimitedCall]

\* new MilitarySubmarine()
MilitaryConstructed ==
    [position |-> [horizontal |-> 0, depth |-> 0, aim |-> 0],
     call |-> NoLimitedCall]

\* the three submarines with a depth limit, as a caller makes them
NoLimited ==
    [configurable |-> ConfigurableConstructed(BuildConfig(MaxValue)),
     decorated |-> DecoratedConstructed(MaxValue),
     military |-> MilitaryConstructed,
     count |-> 0]

\* new CommandPatternSubmarine(), and what its caller has seen: the last
\* call, and the position and history length before the last executeCommand
NoCommander ==
    [state |-> [horizontal |-> 0, depth |-> 0, aim |-> 0],
     history |-> <<>>,
     last |-> "none",
     before |-> [position |-> [horizontal |-> 0, depth |-> 0, aim |-> 0],
                 history |-> 0],
     ops |-> 0]

\* no submarine asked of the SubmarineFactory yet
NoFactory ==
    [requested |-> "none", mission |-> "none", class |-> "none",
     position |-> [horizontal |-> 0, depth |-> 0, aim |-> 0],
     samples |-> 0, call |-> NoLimitedCall, count |-> 0]
\* no createDecoratedSubmarine(options) call made yet: the options, the
\* position of the BasicSubmarine inside the decorators and what each
\* decorator keeps, beside the position of a BasicSubmarine of its own that
\* the caller feeds the same commands, and whether a call has thrown
NoDecorator ==
    [made |-> FALSE,
     options |-> [logging |-> FALSE, validation |-> [on |-> FALSE, maxDepth |-> 0],
                  caching |-> FALSE, telemetry |-> FALSE],
     position |-> [horizontal |-> 0, depth |-> 0, aim |-> 0],
     commandLog |-> <<>>,
     cache |-> {},
     commandCount |-> 0,
     totalDistance |-> 0,
     basic |-> [horizontal |-> 0, depth |-> 0, aim |-> 0],
     raised |-> FALSE,
     call |-> [text |-> <<>>, outcome |-> "none"],
     count |-> 0]

\* new MementoSubmarine(): the position objects there are, by identity, the
\* one that is the submarine's this.position, the one each memento the
\* caller holds keeps, the position each of them had when it was saved, and
\* the objects the caller was last handed by an accessor
NoHeap ==
    [objects |-> <<[horizontal |-> 0, depth |-> 0, aim |-> 0]>>,
     submarine |-> 1,
     mementos |-> <<>>,
     saved |-> <<>>,
     handed |-> {},
     last |-> [op |-> "none", memento |-> 0],
     ops |-> 0]

\* new ObservableSubmarine(), with its observers in the order they were
\* added and the effects of its last executeCommand in the order they
\* happened
NoOrdered ==
    [position |-> [horizontal |-> 0, depth |-> 0, aim |-> 0],
     positionObservers |-> <<>>,
     commandObservers |-> <<>>,
     events |-> <<>>,
     call |-> [text |-> <<>>, outcome |-> "none"],
     count |-> 0]

\* the objects of advanced-patterns.ts, each as its constructor leaves it
PatternInit ==
    /\ sign = NoSign
    /\ machine = NoMachine
    /\ memento = NoMemento
    /\ observable = NoObservable
    /\ chain = NoChain
    /\ limited = NoLimited
    /\ commander = NoCommander
    /\ factory = NoFactory
    /\ decorator = NoDecorator
    /\ heap = NoHeap
    /\ ordered = NoOrdered

\* nothing has been parsed, handed out or compared yet
AuxInit ==
    /\ first = NoRun
    /\ parsed = NoParse
    /\ held = NoHandle
    /\ commands = <<>>
    /\ results = NoResults
    /\ PatternInit

Part1Constructed == sub1 = [horizontal |-> 0, depth |-> 0] /\ call1 = NoCall

Part2Constructed ==
    sub2 = [horizontal |-> 0, depth |-> 0, aim |-> 0] /\ call2 = NoCall

\* one SubmarinePart1 given commands
InitPart1 ==
    Part1Constructed /\ Part2Constructed /\ Part3Constructed(NoScannerData) /\ AuxInit
NextPart1 == \E t \in NavTexts : Part1ExecuteCommand(t)
SpecPart1 == InitPart1 /\ [][NextPart1]_vars

\* one SubmarinePart2 given commands
InitPart2 ==
    Part1Constructed /\ Part2Constructed /\ Part3Constructed(NoScannerData) /\ AuxInit
NextPart2 == \E t \in NavTexts : Part2ExecuteCommand(t)
SpecPart2 == InitPart2 /\ [][NextPart2]_vars

\* one SubmarinePart3 over any scanner-data.json of the model, given commands
Init ==
    /\ Part1Constructed
    /\ Part2Constructed
    /\ \E data \in ScannerChoices : Part3Constructed(data)
    /\ AuxInit
Next == \E t \in Part3Texts : Part3ExecuteCommand(t)
Spec == Init /\ [][Next]_vars

\* one SubmarinePart3 whose map is written through getMapPoints(), then measured
InitDims ==
    Part1Constructed /\ Part2Constructed /\ Part3Constructed(NoScannerData) /\ AuxInit
NextDims ==
    \/ \E x \in KeyXs, y \in KeyYs : MapPointsSet(x, y, "#")
    \/ MapPointsClear
    \/ GetMapDimensions
SpecDims == InitDims /\ [][NextDims]_vars

\* the texts given to the SubmarinePart3 whose map is rendered
RenderTexts ==
    { CommandText("forward", 1), CommandText("forward", -1),
      CommandText("forward", 10), CommandText("down", 1), CommandText("up", 1) }

\* one SubmarinePart3 over any scanner-data.json of the model, given commands
\* and rendered with buildMap
NextRender ==
    \/ \E t \in RenderTexts : Part3ExecuteCommand(t)
    \/ BuildMap
SpecRender == Init /\ [][NextRender]_vars

\* one SubmarinePart3 whose map is written or cleared through getMapPoints(),
\* then measured, rendered or printed
NextEmpty ==
    \/ \E x \in KeyXs, y \in KeyYs : MapPointsSet(x, y, "#")
    \/ MapPointsClear
    \/ GetMapDimensions
    \/ BuildMap
    \/ PrintMap
SpecEmpty == InitDims /\ [][NextEmpty]_vars

----------------------------------------------------------------------------
(* Vocabulary of the properties *)

\* the step is one executeCommand call on the SubmarinePart3
IsCall3 == Len(calls') = Len(calls) + 1

Origin == [horizontal |-> 0, depth |-> 0]

HasData(x, y) == FormatKey(x, y) \in DOMAIN scannerData

\* the character the Scan Source gives for coordinate (cx, cy) in its sample
\* at (x, y), read row-major: row cy - y + 1, column cx - x + 1
SampleAt(x, y, cx, cy) ==
    scannerData[FormatKey(x, y)][(cy - y + 1) * 3 + (cx - x + 1) + 1]

Window(x, y) == { <<x + dx, y + dy>> : dx \in -1..1, dy \in -1..1 }

WindowKeys(x, y) == { FormatKey(c[1], c[2]) : c \in Window(x, y) }

NoParseError == \A k \in 1..Len(calls) : calls[k].outcome # "ParseError"

CallTexts == [k \in 1..Len(calls) |-> calls[k].text]

----------------------------------------------------------------------------
(* C1: when the Scan Source has no data at the position a command reaches,  *)
(* executeCommand raises no error and leaves the sparse map as it was.     *)
C1_NoDataIsNoOp ==
    [][ (/\ IsCall3
         /\ parseCommand(calls'[Len(calls')].text).ok
         /\ ~ HasData(horizontal', depth'))
        => (/\ calls'[Len(calls')].outcome = "ok"
            /\ mapPoints' = mapPoints) ]_vars

(* C2: after construction and after every executeCommand, the whole 3x3    *)
(* window of every visited position that has scan data is in the sparse map *)
C2_VisitedWindowsMapped ==
    \A k \in 1..Len(visitedPositions) :
        HasData(visitedPositions[k].horizontal, visitedPositions[k].depth)
        => WindowKeys(visitedPositions[k].horizontal, visitedPositions[k].depth)
              \subseteq DOMAIN mapPoints

(* C3: the sample taken at the position a command reaches is projected     *)
(* row-major: element i (from 0) is written to                             *)
(* (x + (i mod 3) - 1, y + (i div 3) - 1).                                 *)
C3_RowMajorProjection ==
    [][ (/\ IsCall3
         /\ parseCommand(calls'[Len(calls')].text).ok
         /\ HasData(horizontal', depth'))
        => \A i \in 0..8 :
             LET key == FormatKey(horizontal' + (i % 3) - 1,
                                  depth' + (i \div 3) - 1)
             IN  /\ key \in DOMAIN mapPoints'
                 /\ mapPoints'[key] =
                       scannerData[FormatKey(horizontal', depth')][i + 1] ]_vars

C3_Witness ==
    /\ calls # <<>>
    /\ calls[Len(calls)].outcome = "ok"
    /\ horizontal = 10 /\ depth = 10
    /\ checkScanner([horizontal |-> 10, depth |-> 10]) = DistinctSample
    /\ mapPoints[FormatKey(9, 9)] = "a"
    /\ mapPoints[FormatKey(10, 10)] = "e"
    /\ mapPoints[FormatKey(11, 11)] = "i"

(* C4: last write wins: every coordinate of the sparse map holds the       *)
(* character of the latest entry of the visited log whose scan window      *)
(* covers it; an earlier scan never replaces a later one.                  *)
C4_LastWriteWins ==
    \A key \in DOMAIN mapPoints :
        LET covering ==
              { k \in 1..Len(visitedPositions) :
                  /\ HasData(visitedPositions[k].horizontal, visitedPositions[k].depth)
                  /\ key \in WindowKeys(visitedPositions[k].horizontal,
                                        visitedPositions[k].depth) }
        IN  /\ covering # {}
            /\ LET last == SetMax(covering)
                   p == visitedPositions[last]
               IN  \E c \in Window(p.horizontal, p.depth) :
                      /\ key = FormatKey(c[1], c[2])
                      /\ mapPoints[key] = SampleAt(p.horizontal, p.depth, c[1], c[2])

\* two ingested scans at different positions disagree on a shared coordinate,
\* and the map holds the later one's character
C4_Witness ==
    /\ NoParseError
    /\ \E j \in 2..Len(visitedPositions), k \in 2..Len(visitedPositions) :
          LET p == visitedPositions[j]
              q == visitedPositions[k]
          IN  /\ j < k
              /\ p # q
              /\ HasData(p.horizontal, p.depth)
              /\ HasData(q.horizontal, q.depth)
              /\ \E c \in Window(p.horizontal, p.depth) \cap Window(q.horizontal, q.depth) :
                    /\ SampleAt(p.horizontal, p.depth, c[1], c[2])
                          # SampleAt(q.horizontal, q.depth, c[1], c[2])
                    /\ \A l \in (k + 1)..Len(visitedPositions) :
                          visitedPositions[l] \notin {p, q}
                    /\ mapPoints[FormatKey(c[1], c[2])]
                          = SampleAt(q.horizontal, q.depth, c[1], c[2])

(* C5: a command that leaves (horizontal, depth) unchanged at a position   *)
(* with scan data leaves the sparse map identical.                         *)
C5_RescanIdempotent ==
    [][ (/\ IsCall3
         /\ calls'[Len(calls')].outcome = "ok"
         /\ horizontal' = horizontal /\ depth' = depth
         /\ HasData(horizontal, depth))
        => mapPoints' = mapPoints ]_vars

(* C6: with scan data at (10,10), a fresh SubmarinePart3 given 'down 1'    *)
(* then 'forward 10' runs both commands, ends at (10,10) and its map has   *)
(* every coordinate of 9..11 x 9..11.                                      *)
C6_EndToEnd ==
    (/\ HasData(10, 10)
     /\ CallTexts = <<CommandText("down", 1), CommandText("forward", 10)>>)
    => /\ \A k \in 1..Len(calls) : calls[k].outcome = "ok"
       /\ horizontal = 10
       /\ depth = 10
       /\ \A x \in 9..11, y \in 9..11 : FormatKey(x, y) \in DOMAIN mapPoints

(* C7: aimed variant: 'forward v' adds v to horizontal and (aim before)*v  *)
(* to depth and keeps aim; 'down v' adds v to aim, 'up v' subtracts v from *)
(* aim, each keeping horizontal and depth.                                 *)
C7_AimedVariant ==
    [][ \A v \in (-MaxValue)..MaxValue :
          /\ call2'.text = CommandText("forward", v)
                => /\ sub2'.horizontal = sub2.horizontal + v
                   /\ sub2'.depth = sub2.depth + sub2.aim * v
                   /\ sub2'.aim = sub2.aim
          /\ call2'.text = CommandText("down", v)
                => /\ sub2'.aim = sub2.aim + v
                   /\ sub2'.horizontal = sub2.horizontal
                   /\ sub2'.depth = sub2.depth
          /\ call2'.text = CommandText("up", v)
                => /\ sub2'.aim = sub2.aim - v
                   /\ sub2'.horizontal = sub2.horizontal
                   /\ sub2'.depth = sub2.depth ]_vars

C7_Witness ==
    /\ call2 = [text |-> CommandText("forward", 2), outcome |-> "ok"]
    /\ sub2 = [horizontal |-> 1, depth |-> -4, aim |-> -1]

(* C8: simple variant: the state starts at (0,0); 'forward v' adds v to    *)
(* horizontal and keeps depth; 'down v' adds v to depth, 'up v' subtracts  *)
(* v from depth, each keeping horizontal.                                  *)
C8_SimpleVariant ==
    /\ sub1 = [horizontal |-> 0, depth |-> 0]
    /\ [][ \A v \in (-MaxValue)..MaxValue :
             /\ call1'.text = CommandText("forward", v)
                   => /\ sub1'.horizontal = sub1.horizontal + v
                      /\ sub1'.depth = sub1.depth
             /\ call1'.text = CommandText("down", v)
                   => /\ sub1'.depth = sub1.depth + v
                      /\ sub1'.horizontal = sub1.horizontal
             /\ call1'.text = CommandText("up", v)
                   => /\ sub1'.depth = sub1.depth - v
                      /\ sub1'.horizontal = sub1.horizontal ]_vars

C8_Witness ==
    /\ call1 = [text |-> CommandText("up", 2), outcome |-> "ok"]
    /\ sub1 = [horizontal |-> 3, depth |-> -1]

(* C9: the visited log is exactly [(0,0)] after construction; a call whose *)
(* text parses appends exactly one entry, the (horizontal, depth) after    *)
(* the command, also when the command does not move the submarine; other   *)
(* calls leave the log alone; its length is 1 + the number of parsed       *)
(* commands.                                                               *)
C9_VisitedLogAppendOnly ==
    /\ visitedPositions = <<Origin>>
    /\ [][ IsCall3 =>
             /\ IF parseCommand(calls'[Len(calls')].text).ok
                THEN visitedPositions' =
                        Append(visitedPositions,
                               [horizontal |-> horizontal', depth |-> depth'])
                ELSE visitedPositions' = visitedPositions
             /\ Len(visitedPositions') =
                   1 + Cardinality({ k \in 1..Len(calls') :
                                       parseCommand(calls'[k].text).ok }) ]_vars

\* a down that did not move the submarine was logged, after a move
C9_Witness ==
    /\ Len(calls) = 3
    /\ calls[1].text = CommandText("forward", 1)
    /\ calls[2].outcome = "ParseError"
    /\ calls[3].text = CommandText("down", 1)
    /\ visitedPositions = <<Origin, [horizontal |-> 1, depth |-> 0],
                            [horizontal |-> 1, depth |-> 0]>>

(* C10: for a non-empty sparse map getMapDimensions returns the least and  *)
(* greatest x and y over all keys, negative ones included, with            *)
(* width = maxX-minX+1 and height = maxY-minY+1; keys                      *)
(* {(0,0),(1,-1),(-2,3)} give -2, 1, -1, 3, 4, 5.                          *)
C10_BoundingBox ==
    (dimensions # NoResult /\ DOMAIN mapPoints # {})
    => LET pts == { c \in KeyXs \X KeyYs :
                       FormatKey(c[1], c[2]) \in DOMAIN mapPoints }
       IN  /\ Cardinality(pts) = Cardinality(DOMAIN mapPoints)
           /\ \E c \in pts : c[1] = dimensions.minX
           /\ \E c \in pts : c[1] = dimensions.maxX
           /\ \E c \in pts : c[2] = dimensions.minY
           /\ \E c \in pts : c[2] = dimensions.maxY
           /\ \A c \in pts : /\ dimensions.minX <= c[1] /\ c[1] <= dimensions.maxX
                             /\ dimensions.minY <= c[2] /\ c[2] <= dimensions.maxY
           /\ dimensions.width = dimensions.maxX - dimensions.minX + 1
           /\ dimensions.height = dimensions.maxY - dimensions.minY + 1
           /\ pts = {<<0, 0>>, <<1, -1>>, <<-2, 3>>}
                 => dimensions = [width |-> 4, height |-> 5, minX |-> -2,
                                  maxX |-> 1, minY |-> -1, maxY |-> 3]

C10_Witness ==
    /\ DOMAIN mapPoints = {FormatKey(0, 0), FormatKey(1, -1), FormatKey(-2, 3)}
    /\ dimensions # NoResult
    /\ dimensions.minX = -2
    /\ dimensions.height = 5

----------------------------------------------------------------------------
(* Rendering *)

\* rows has box.height rows of box.width cells each
RowsFit(rows, box) ==
    /\ Len(rows) = box.height
    /\ \A r \in 1..Len(rows) : Len(rows[r]) = box.width

(* C11: whenever the map is non-empty, buildMap() returns exactly          *)
(* getMapDimensions().height rows and every row has exactly                *)
(* getMapDimensions().width cells.                                         *)
C11_RenderRectangular ==
    (grid.called /\ DOMAIN mapPoints # {})
    => /\ ~ grid.threw
       /\ RowsFit(grid.rows, getMapDimensions(mapPoints))

C11_Witness ==
    /\ grid.called
    /\ Cardinality(DOMAIN mapPoints) > 9
    /\ Len(grid.rows) = 3
    /\ Len(grid.rows[1]) = 4

\* the cell of a coordinate in a grid whose corner is (minX, minY)
CellOf(c, box) == <<c.y - box.minY + 1, c.x - box.minX + 1>>

\* each key's character is in the key's cell, every other cell is a space
RowsPlacedAt(rows, m, cells, taken) ==
    /\ \A key \in DOMAIN m :
          /\ cells[key][1] \in 1..Len(rows)
          /\ cells[key][2] \in 1..Len(rows[cells[key][1]])
          /\ rows[cells[key][1]][cells[key][2]] = m[key]
    /\ \A r \in 1..Len(rows) : \A c \in 1..Len(rows[r]) :
          <<r, c>> \notin taken => rows[r][c] = " "

RowsPlaced(rows, m, box) ==
    RowsPlacedAt(rows, m,
                 [key \in DOMAIN m |-> CellOf(KeyCoordinate(key), box)],
                 { CellOf(KeyCoordinate(key), box) : key \in DOMAIN m })

(* C12: for every key (x,y) with character c the rendered grid has c at    *)
(* row y-minY, column x-minX; every cell that is no key's cell is one      *)
(* space.                                                                  *)
C12_RenderPlacement ==
    (grid.called /\ DOMAIN mapPoints # {})
    => /\ ~ grid.threw
       /\ RowsPlaced(grid.rows, mapPoints, getMapDimensions(mapPoints))

C12_Witness ==
    /\ grid.called
    /\ FormatKey(-1, -1) \in DOMAIN mapPoints
    /\ FormatKey(11, 11) \in DOMAIN mapPoints
    /\ mapPoints[FormatKey(-1, -1)] = "a"
    /\ mapPoints[FormatKey(11, 11)] = "#"
    /\ Len(grid.rows) = 13
    /\ grid.rows[1][1] = "a"
    /\ grid.rows[6][6] = " "
    /\ grid.rows[13][13] = "#"

(* C13: on an empty map getMapDimensions() returns all six fields zero,    *)
(* buildMap() returns the empty array, and printMap() writes exactly the   *)
(* line 'No map data available' and raises nothing.                        *)
C13_EmptyMapSafe ==
    (DOMAIN mapPoints = {})
    => /\ dimensions # NoResult
          => dimensions = [width |-> 0, height |-> 0, minX |-> 0,
                           maxX |-> 0, minY |-> 0, maxY |-> 0]
       /\ grid.called => (~ grid.threw /\ grid.rows = <<>>)
       /\ output.called => (~ output.threw /\ output.lines = <<NoDataLine>>)

C13_Witness ==
    /\ DOMAIN mapPoints = {}
    /\ output.called
    /\ output.lines = <<NoDataLine>>

----------------------------------------------------------------------------
(* Growth of the map *)

\* the box `after` is at least as wide and as high as the box `before`
NoSmaller(before, after) ==
    before.width <= after.width /\ before.height <= after.height

\* every key of `before` is a key of `after`, which has at least as many
\* entries and, its keys being others, a box at least as large
MapGrows(before, after) ==
    /\ DOMAIN before \subseteq DOMAIN after
    /\ Cardinality(DOMAIN before) <= Cardinality(DOMAIN after)
    /\ DOMAIN before # DOMAIN after
       => NoSmaller(getMapDimensions(before), getMapDimensions(after))

(* C14: across every executeCommand call each key present before is        *)
(* present after, so the number of map entries never decreases, and the    *)
(* bounding-box width and height never decrease.                           *)
C14_MonotonicGrowth == [][IsCall3 => MapGrows(mapPoints, mapPoints')]_vars

C14_Witness ==
    /\ Len(calls) >= 2
    /\ calls[Len(calls)].outcome = "ok"
    /\ FormatKey(0, 0) \in DOMAIN mapPoints
    /\ FormatKey(11, 11) \in DOMAIN mapPoints
    /\ Cardinality(DOMAIN mapPoints) = 18

----------------------------------------------------------------------------
(* Two runs over the same Scan Source *)

\* the longest command list of a run that is compared with another run
MaxRun == 2

\* the moves of the compared runs, all along depth 0
OrderTexts ==
    { CommandText("forward", 1), CommandText("forward", -1),
      CommandText("forward", 2), CommandText("forward", -2) }

\* every scanner-data.json of the model with samples on depth 0 only
OrderChoices ==
    UNION { [ScanKeys(D) -> Samples] : D \in SUBSET {<<0, 0>>, <<1, 0>>} }

\* the first run ends and a second new SubmarinePart3() starts over the same
\* scanner-data.json
SecondRun ==
    /\ ~ first.done
    /\ first' = [done |-> TRUE, visitedPositions |-> visitedPositions,
                 mapPoints |-> mapPoints, calls |-> calls]
    /\ horizontal' = 0
    /\ depth' = 0
    /\ aim' = 0
    /\ visitedPositions' = <<[horizontal |-> 0, depth |-> 0]>>
    /\ scannedData' = collectScanData(<<>>, [horizontal |-> 0, depth |-> 0, aim |-> 0])
    /\ mapPoints' = EmptyMap
    /\ calls' = <<>>
    /\ dimensions' = NoResult
    /\ grid' = NoGrid
    /\ output' = NoOutput
    /\ UNCHANGED <<part1vars, part2vars, patternvars, scannerData, parsed, held, commands,
                   results>>

InitOrder ==
    /\ Part1Constructed
    /\ Part2Constructed
    /\ \E data \in OrderChoices : Part3Constructed(data)
    /\ AuxInit
NextOrder ==
    \/ \E t \in OrderTexts : Len(calls) < MaxRun /\ Part3ExecuteCommand(t)
    \/ SecondRun
SpecOrder == InitOrder /\ [][NextOrder]_vars

VisitedSet(log) == { log[k] : k \in 1..Len(log) }

\* the visited positions at which the Scan Source holds a sample
ScannedSet(log) == { p \in VisitedSet(log) : HasData(p.horizontal, p.depth) }

AllOk(log) == \A k \in 1..Len(log) : log[k].outcome = "ok"

(* C15: two runs over the same Scan Source that visit the same positions,  *)
(* each once, in different orders and without any failed call end with     *)
(* maps of the same key set that agree on every coordinate lying in the    *)
(* window of only one scanned position.                                    *)
C15_OrderIndependent ==
    (/\ first.done
     /\ VisitedSet(first.visitedPositions) = VisitedSet(visitedPositions)
     /\ first.visitedPositions # visitedPositions
     /\ Len(first.visitedPositions) = Len(visitedPositions)
     /\ Cardinality(VisitedSet(visitedPositions)) = Len(visitedPositions)
     /\ AllOk(first.calls)
     /\ AllOk(calls))
    => /\ DOMAIN first.mapPoints = DOMAIN mapPoints
       /\ \A key \in DOMAIN mapPoints :
             Cardinality({ p \in ScannedSet(visitedPositions) :
                             key \in WindowKeys(p.horizontal, p.depth) }) = 1
             => first.mapPoints[key] = mapPoints[key]

----------------------------------------------------------------------------
(* parseCommand on arbitrary texts *)

\* first tokens: the three directions, an unknown word, a capitalised
\* direction, the empty token
FirstTokens ==
    { DirectionText(d) : d \in Directions }
    \cup { <<"i", "n", "v", "a", "l", "i", "d">>, <<"U", "p">>, <<>> }

\* second tokens: integers, signed integers, and texts that are not integers
ValueTokens ==
    { IntToText(v) : v \in {0, 5, 12, -3} }
    \cup { <<"+", "3">>, <<"0", "7">>, <<"x">>, <<"5", "a", "b", "c">>,
           <<"1", ".", "5">>, <<"1", "e", "3">>, <<"-">>, <<"-", "-", "1">>,
           <<"a", "5">>, <<>> }

\* one, two and three tokens joined by single spaces, the two-token texts
\* also with white space around them
ParseTexts ==
    FirstTokens
    \cup { f \o <<" ">> \o v : f \in FirstTokens, v \in ValueTokens }
    \cup { <<" ">> \o f \o <<" ">> \o v \o <<"\n">> :
              f \in FirstTokens, v \in ValueTokens }
    \cup { f \o <<" ">> \o v \o <<" ">> \o v :
              f \in FirstTokens, v \in {<<"5">>, <<>>} }

\* parseCommand(commandStr) called on its own
ParseCommand(commandStr) ==
    /\ parsed' = [called |-> TRUE, text |-> commandStr,
                  result |-> parseCommand(commandStr)]
    /\ UNCHANGED <<part1vars, part2vars, patternvars, part3vars, first, held, commands,
                   results>>

InitParse ==
    Part1Constructed /\ Part2Constructed /\ Part3Constructed(NoScannerData) /\ AuxInit
NextParse == \E t \in ParseTexts : ParseCommand(t)
SpecParse == InitParse /\ [][NextParse]_vars

\* an optional sign followed by one or more digits and nothing else
IsIntegerText(s) ==
    LET body == IF s # <<>> /\ s[1] \in {"-", "+"} THEN Tail(s) ELSE s
    IN  body # <<>> /\ \A k \in 1..Len(body) : IsDigit(body[k])

\* two space-separated tokens, a direction and an integer; white space around
\* the text is not counted
IsCommandText(s) ==
    LET tokens == Split(Trim(s))
    IN  /\ Len(tokens) = 2
        /\ \E d \in Directions : DirectionText(d) = tokens[1]
        /\ IsIntegerText(tokens[2])

(* C16: parseCommand returns {direction, value} exactly for the texts of   *)
(* two space-separated tokens, one of forward/down/up and a base-10        *)
(* integer (negative allowed); it throws for any other token count, for a  *)
(* value token that is not entirely an integer, and for any other          *)
(* direction token.                                                        *)
C16_ParseAcceptsExactly ==
    parsed.called
    => /\ parsed.result.ok <=> IsCommandText(parsed.text)
       /\ parsed.result.ok
          => LET tokens == Split(Trim(parsed.text))
             IN  /\ DirectionText(parsed.result.direction) = tokens[1]
                 /\ \E v \in -99..99 :
                       /\ parsed.result.value = v
                       /\ tokens[2] \in { IntToText(v), <<"+">> \o IntToText(v),
                                          <<"0">> \o IntToText(v) }

----------------------------------------------------------------------------
(* Parse failures in the three submarines *)

\* the scanner-data.json with a sample at every position of the model
FullScannerData == [k \in ScanKeys(ScanPositions) |-> DistinctSample]

\* one submarine of any of the three classes, given valid and malformed texts
InitNavigators ==
    /\ Part1Constructed
    /\ Part2Constructed
    /\ Part3Constructed(FullScannerData)
    /\ AuxInit
NextNavigators ==
    \/ \E t \in NavTexts :
          call2 = NoCall /\ calls = <<>> /\ Part1ExecuteCommand(t)
    \/ \E t \in NavTexts :
          call1 = NoCall /\ calls = <<>> /\ Part2ExecuteCommand(t)
    \/ \E t \in Part3Texts :
          call1 = NoCall /\ call2 = NoCall /\ Part3ExecuteCommand(t)
SpecNavigators == InitNavigators /\ [][NextNavigators]_vars

----------------------------------------------------------------------------
(* Accessors and what a caller does with the values they return *)

\* A value handed to a caller: `shared` tells whether it is the submarine's
\* own object; `own` is its content as the caller last saw it.  The items of
\* a visited array name the element objects: ref k is the k-th object of the
\* submarine's log, ref 0 an object the caller made itself.

\* getPosition(): a new object literal
getPosition(h, d, a) ==
    [kind |-> "position", shared |-> FALSE,
     own |-> [horizontal |-> h, depth |-> d, aim |-> a]]

\* getVisitedPositions(): [...array], a new array of the same element objects
getVisitedPositions(log) ==
    [kind |-> "visited", shared |-> FALSE,
     own |-> [k \in 1..Len(log) |-> [ref |-> k, value |-> log[k]]]]

\* getScannedData(): return this.scannedData
getScannedData(list) == [kind |-> "scanned", shared |-> TRUE, own |-> list]

\* a getMapPoints that returns new Map(this.mapPoints)
getMapPointsCopy(m) == [kind |-> "map", shared |-> FALSE, own |-> m]

\* getMapPoints(): return this.mapPoints
getMapPoints(m) == [kind |-> "map", shared |-> TRUE, own |-> m]

\* the values a caller writes
CallerPosition == [horizontal |-> 999, depth |-> 999]
CallerChar == "?"
CallerKeys == {FormatKey(5, 5)}
CallerScan == [position |-> [horizontal |-> 5, depth |-> 5],
               scanResult |-> [k \in 1..9 |-> CallerChar]]

\* an accessor call: the caller now holds h
HandOut(h) ==
    /\ held' = h
    /\ UNCHANGED <<part1vars, part2vars, patternvars, part3vars, first, parsed, commands,
                   results>>

GetPosition == HandOut(getPosition(horizontal, depth, aim))
GetVisitedPositions == HandOut(getVisitedPositions(visitedPositions))
GetScannedData == HandOut(getScannedData(scannedData))
GetMapPoints == HandOut(getMapPoints(mapPoints))

\* pos.horizontal = 999 on a held position
HeldPositionSet ==
    /\ held.kind = "position"
    /\ held' = [held EXCEPT !.own.horizontal = CallerPosition.horizontal]
    /\ UNCHANGED <<part1vars, part2vars, patternvars, part3vars, first, parsed, commands,
                   results>>

\* visited.push({horizontal: 999, depth: 999}) on a held array
HeldVisitedPush ==
    /\ held.kind = "visited"
    /\ held.own = <<>> \/ held.own[Len(held.own)].ref # 0
    /\ held' = [held EXCEPT !.own =
                   Append(@, [ref |-> 0,
                              value |-> CallerPosition])]
    /\ UNCHANGED <<part1vars, part2vars, patternvars, part3vars, first, parsed, commands,
                   results>>

\* visited[k - 1].horizontal = 999 on a held array: the write goes to the
\* element object, which is the submarine's own when the item refers to it
HeldVisitedElementSet(k) ==
    /\ held.kind = "visited"
    /\ k \in 1..Len(held.own)
    /\ held' = [held EXCEPT !.own[k].value.horizontal = CallerPosition.horizontal]
    /\ visitedPositions' =
          IF held.own[k].ref = 0 THEN visitedPositions
          ELSE [visitedPositions EXCEPT ![held.own[k].ref].horizontal = CallerPosition.horizontal]
    /\ UNCHANGED <<part1vars, part2vars, patternvars, scannerData, horizontal, depth, aim,
                   scannedData, mapPoints, calls, dimensions, readvars,
                   first, parsed, commands, results>>

\* the Map the caller's handle denotes
HeldMap == IF held.shared THEN mapPoints ELSE held.own

\* a Map method called on the held map leaves it as `new`
HeldMapBecomes(new) ==
    /\ held.kind = "map"
    /\ held' = [held EXCEPT !.own = new]
    /\ mapPoints' = IF held.shared THEN new ELSE mapPoints
    /\ dimensions' = NoResult
    /\ grid' = NoGrid
    /\ output' = NoOutput
    /\ UNCHANGED <<part1vars, part2vars, patternvars, scannerData, horizontal, depth, aim,
                   visitedPositions, scannedData, calls, first, parsed,
                   commands, results>>

HeldMapSet(key) == HeldMapBecomes(MapSet(HeldMap, key, CallerChar))
HeldMapDelete(key) ==
    HeldMapBecomes([k \in DOMAIN HeldMap \ {key} |-> HeldMap[k]])
HeldMapClear == HeldMapBecomes(EmptyMap)

\* the array the caller's handle denotes
HeldScans == IF held.shared THEN scannedData ELSE held.own

\* scans.push(...) on the held scan list
HeldScannedPush ==
    /\ held.kind = "scanned"
    /\ HeldScans = <<>> \/ HeldScans[Len(HeldScans)] # CallerScan
    /\ held' = [held EXCEPT !.own = Append(HeldScans, CallerScan)]
    /\ scannedData' = IF held.shared THEN Append(HeldScans, CallerScan)
                      ELSE scannedData
    /\ dimensions' = NoResult
    /\ grid' = NoGrid
    /\ output' = NoOutput
    /\ UNCHANGED <<part1vars, part2vars, patternvars, scannerData, horizontal, depth, aim,
                   visitedPositions, mapPoints, calls, first, parsed,
                   commands, results>>

\* the commands given to the submarine whose accessors are called
AccessTexts == { CommandText("forward", 1), CommandText("down", 1) }

\* one SubmarinePart3 given commands, with a caller that keeps the value of
\* its latest accessor call and writes to it
NextAccessors ==
    \/ \E t \in AccessTexts : Part3ExecuteCommand(t)
    \/ GetPosition
    \/ GetVisitedPositions
    \/ GetScannedData
    \/ GetMapPoints
    \/ HeldPositionSet
    \/ HeldVisitedPush
    \/ HeldVisitedElementSet(1)
    \/ \E key \in CallerKeys : HeldMapSet(key)
    \/ HeldMapDelete(FormatKey(0, 0))
    \/ HeldMapClear
    \/ HeldScannedPush
    \/ GetMapDimensions
SpecAccessors == InitNavigators /\ [][NextAccessors]_vars

(* C18: whatever a caller does with the object returned by getPosition or  *)
(* with the array returned by getVisitedPositions, its elements included,  *)
(* later getPosition and getVisitedPositions calls return what they would  *)
(* have returned without it.                                               *)
C18_SnapshotsAreCopies ==
    [][(/\ held.kind \in {"position", "visited"}
        /\ held'.kind = held.kind
        /\ calls' = calls)
       => /\ getPosition(horizontal', depth', aim')
               = getPosition(horizontal, depth, aim)
          /\ getVisitedPositions(visitedPositions')
               = getVisitedPositions(visitedPositions)]_vars

(* C19 as stated: a set, delete, clear or push on the value returned by    *)
(* getMapPoints or getScannedData leaves the submarine's map and scan      *)
(* list, hence what getMapDimensions, buildMap, getMapPoints and           *)
(* executeCommand work on, as they were.                                   *)
C19_DefensiveCopies ==
    [][(/\ held.kind \in {"map", "scanned"}
        /\ held'.kind = held.kind
        /\ calls' = calls)
       => /\ mapPoints' = mapPoints
          /\ scannedData' = scannedData]_vars

(* C19 amended: getMapPoints and getScannedData return the submarine's     *)
(* own Map and array: after a set, delete or clear on the returned Map,    *)
(* or a push on the returned array, the submarine's map or scan list is    *)
(* exactly the mutated value the caller holds, and a following             *)
(* getMapDimensions is computed from it.                                   *)
C19_AccessorsShareInternals ==
    [][/\ (calls' = calls /\ held' # held)
          => /\ held'.kind = "map" => mapPoints' = held'.own
             /\ held'.kind = "scanned" => scannedData' = held'.own
       /\ (dimensions' # NoResult /\ dimensions = NoResult)
          => dimensions' = getMapDimensions(mapPoints')]_vars

C19_Witness ==
    /\ held.kind = "map"
    /\ Len(calls) > 0
    /\ Cardinality(DOMAIN mapPoints) = 10
    /\ FormatKey(5, 5) \in DOMAIN mapPoints
    /\ mapPoints[FormatKey(5, 5)] = CallerChar
    /\ mapPoints = held.own
    /\ dimensions # NoResult
    /\ dimensions.maxX = 5

----------------------------------------------------------------------------
(* The navigation approaches compared by main *)

\* the longest command list given to the approaches
MaxSeq == 3

InitialState == [horizontal |-> 0, depth |-> 0, aim |-> 0]

RECURSIVE RunPart1(_, _)
\* new SubmarinePart1(); commands.forEach(cmd => sub.executeCommand(cmd));
\* sub.getPosition() and sub.getResult()
RunPart1(cmds, n) ==
    IF n = 0 THEN [horizontal |-> 0, depth |-> 0]
    ELSE Part1Apply(RunPart1(cmds, n - 1), parseCommand(cmds[n]))

SubmarinePart1(cmds) ==
    LET sub == RunPart1(cmds, Len(cmds))
    IN  [position |-> [horizontal |-> sub.horizontal, depth |-> sub.depth],
         result |-> sub.horizontal * sub.depth]

RECURSIVE RunPart2(_, _)
RunPart2(cmds, n) ==
    IF n = 0 THEN InitialState
    ELSE Part2Apply(RunPart2(cmds, n - 1), parseCommand(cmds[n]))

SubmarinePart2(cmds) ==
    LET sub == RunPart2(cmds, Len(cmds))
    IN  [position |-> [horizontal |-> sub.horizontal, depth |-> sub.depth,
                       aim |-> sub.aim],
         result |-> sub.horizontal * sub.depth]

\* the reducer of calculateFinalPosition
calculateStep(state, command, part) ==
    IF part = 1
    THEN CASE command.direction = "forward" ->
                 [state EXCEPT !.horizontal = state.horizontal + command.value]
           [] command.direction = "down" ->
                 [state EXCEPT !.depth = state.depth + command.value]
           [] command.direction = "up" ->
                 [state EXCEPT !.depth = state.depth - command.value]
    ELSE CASE command.direction = "forward" ->
                 [state EXCEPT !.horizontal = state.horizontal + command.value,
                               !.depth = state.depth + state.aim * command.value]
           [] command.direction = "down" ->
                 [state EXCEPT !.aim = state.aim + command.value]
           [] command.direction = "up" ->
                 [state EXCEPT !.aim = state.aim - command.value]

RECURSIVE calculateReduce(_, _, _)
calculateReduce(cmds, n, part) ==
    IF n = 0 THEN InitialState
    ELSE calculateStep(calculateReduce(cmds, n - 1, part),
                       parseCommand(cmds[n]), part)

\* the aim is a field of the result for part 2 only
calculateFinalPosition(cmds, part) ==
    LET finalState == calculateReduce(cmds, Len(cmds), part)
    IN  IF part = 2
        THEN [horizontal |-> finalState.horizontal,
              depth |-> finalState.depth,
              product |-> finalState.horizontal * finalState.depth,
              aim |-> finalState.aim]
        ELSE [horizontal |-> finalState.horizontal,
              depth |-> finalState.depth,
              product |-> finalState.horizontal * finalState.depth]

moveForward(value, state) ==
    [state EXCEPT !.horizontal = state.horizontal + value]

moveDown(value, state) == [state EXCEPT !.depth = state.depth + value]

\* a moveUp that moves deeper
moveUpAdds(value, state) == [state EXCEPT !.depth = state.depth + value]

moveUp(value, state) == [state EXCEPT !.depth = state.depth - value]

increaseAim(value, state) == [state EXCEPT !.aim = state.aim + value]

decreaseAim(value, state) == [state EXCEPT !.aim = state.aim - value]

moveForwardWithAim(value, state) ==
    [state EXCEPT !.horizontal = state.horizontal + value,
                  !.depth = state.depth + state.aim * value]

RECURSIVE functionalReduce1(_, _)
functionalReduce1(cmds, n) ==
    IF n = 0 THEN InitialState
    ELSE LET state == functionalReduce1(cmds, n - 1)
             cmd == parseCommand(cmds[n])
         IN  CASE cmd.direction = "forward" -> moveForward(cmd.value, state)
               [] cmd.direction = "down" -> moveDown(cmd.value, state)
               [] cmd.direction = "up" -> moveUp(cmd.value, state)

functionalNavigatePart1(cmds) == functionalReduce1(cmds, Len(cmds))

RECURSIVE functionalReduce2(_, _)
functionalReduce2(cmds, n) ==
    IF n = 0 THEN InitialState
    ELSE LET state == functionalReduce2(cmds, n - 1)
             cmd == parseCommand(cmds[n])
         IN  CASE cmd.direction = "forward" -> moveForwardWithAim(cmd.value, state)
               [] cmd.direction = "down" -> increaseAim(cmd.value, state)
               [] cmd.direction = "up" -> decreaseAim(cmd.value, state)

functionalNavigatePart2(cmds) == functionalReduce2(cmds, Len(cmds))

\* the reducer of processCommands
processStep(state, cmd, part) ==
    IF part = 1
    THEN [state EXCEPT
            !.horizontal = IF cmd.direction = "forward"
                           THEN state.horizontal + cmd.value
                           ELSE state.horizontal,
            !.depth = state.depth
                        + (IF cmd.direction = "down" THEN cmd.value
                           ELSE IF cmd.direction = "up" THEN - cmd.value
                           ELSE 0)]
    ELSE IF cmd.direction = "forward"
         THEN [state EXCEPT !.horizontal = state.horizontal + cmd.value,
                            !.depth = state.depth + state.aim * cmd.value]
         ELSE IF cmd.direction = "down"
         THEN [state EXCEPT !.aim = state.aim + cmd.value]
         ELSE [state EXCEPT !.aim = state.aim - cmd.value]

RECURSIVE processReduce(_, _, _)
processReduce(parsedCmds, n, part) ==
    IF n = 0 THEN InitialState
    ELSE processStep(processReduce(parsedCmds, n - 1, part), parsedCmds[n], part)

\* commands.map(parseCommand).reduce(...)
processCommands(part, cmds) ==
    LET parsedCmds == [k \in 1..Len(cmds) |-> parseCommand(cmds[k])]
    IN  processReduce(parsedCmds, Len(cmds), part)

calculateProduct(state) ==
    [horizontal |-> state.horizontal, depth |-> state.depth, aim |-> state.aim,
     product |-> state.horizontal * state.depth]

pipelineNavigate(cmds, part) == calculateProduct(processCommands(part, cmds))

\* AimNavigationStrategy.execute: the copy is updated field by field, the
\* depth from the copy's aim
AimNavigationStrategy(command, state) ==
    CASE command.direction = "forward" ->
            LET moved == [state EXCEPT !.horizontal = state.horizontal + command.value]
            IN  [moved EXCEPT !.depth = moved.depth + moved.aim * command.value]
      [] command.direction = "down" ->
            [state EXCEPT !.aim = state.aim + command.value]
      [] command.direction = "up" ->
            [state EXCEPT !.aim = state.aim - command.value]

RECURSIVE RunStrategy(_, _)
RunStrategy(cmds, n) ==
    IF n = 0 THEN InitialState
    ELSE AimNavigationStrategy(parseCommand(cmds[n]), RunStrategy(cmds, n - 1))

\* new StrategySubmarine(new AimNavigationStrategy()) given the commands
StrategySubmarine(cmds) ==
    LET state == RunStrategy(cmds, Len(cmds))
    IN  [position |-> state, result |-> state.horizontal * state.depth]

\* the valid texts of the command lists
CompareTexts ==
    { CommandText("forward", 2), CommandText("forward", -1),
      CommandText("down", 3), CommandText("down", -1),
      CommandText("up", 1), CommandText("up", 2) }

\* one more line in the input
AddCommand(commandStr) ==
    /\ Len(commands) < MaxSeq
    /\ commands' = Append(commands, commandStr)
    /\ results' = NoResults
    /\ UNCHANGED <<part1vars, part2vars, patternvars, part3vars, first, parsed, held>>

\* main: every approach is run on the same commands
Main ==
    /\ ~ results.done
    /\ results' =
          [done |-> TRUE,
           result1 |-> SubmarinePart1(commands),
           result2 |-> calculateFinalPosition(commands, 1),
           result3 |-> LET state == functionalNavigatePart1(commands)
                       IN  calculateProduct(state),
           result4 |-> pipelineNavigate(commands, 1),
           result5 |-> SubmarinePart2(commands),
           result6 |-> calculateFinalPosition(commands, 2),
           result7 |-> LET state == functionalNavigatePart2(commands)
                       IN  calculateProduct(state),
           result8 |-> pipelineNavigate(commands, 2),
           strategy |-> StrategySubmarine(commands)]
    /\ UNCHANGED <<part1vars, part2vars, patternvars, part3vars, first, parsed, held,
                   commands>>

InitCompare ==
    Part1Constructed /\ Part2Constructed /\ Part3Constructed(NoScannerData) /\ AuxInit
NextCompare ==
    \/ \E t \in CompareTexts : AddCommand(t)
    \/ Main
SpecCompare == InitCompare /\ [][NextCompare]_vars

(* C20: for every list of valid commands SubmarinePart1,                   *)
(* calculateFinalPosition(cmds,1), functionalNavigatePart1 and             *)
(* pipelineNavigate(cmds,1) give the same (horizontal, depth);             *)
(* SubmarinePart2, calculateFinalPosition(cmds,2),                         *)
(* functionalNavigatePart2, pipelineNavigate(cmds,2) and a                 *)
(* StrategySubmarine with AimNavigationStrategy give the same              *)
(* (horizontal, depth, aim); every product is horizontal * depth.          *)
C20_ApproachesAgree ==
    results.done
    => LET h1 == results.result1.position.horizontal
           d1 == results.result1.position.depth
           h2 == results.result5.position.horizontal
           d2 == results.result5.position.depth
           a2 == results.result5.position.aim
           Same1(r) == r.horizontal = h1 /\ r.depth = d1 /\ r.product = h1 * d1
           Same2(r) == /\ r.horizontal = h2 /\ r.depth = d2 /\ r.aim = a2
                       /\ r.product = h2 * d2
       IN  /\ results.result1.result = h1 * d1
           /\ Same1(results.result2)
           /\ Same1(results.result3)
           /\ Same1(results.result4)
           /\ results.result5.result = h2 * d2
           /\ Same2(results.result6)
           /\ Same2(results.result7)
           /\ Same2(results.result8)
           /\ results.strategy.position
                 = [horizontal |-> h2, depth |-> d2, aim |-> a2]
           /\ results.strategy.result = h2 * d2

C20_Witness ==
    /\ results.done
    /\ commands = <<CommandText("down", 3), CommandText("up", 1),
                    CommandText("forward", 2)>>
    /\ results.result3.depth = 2
    /\ results.result4.product = 4
    /\ results.result8.depth = 4
    /\ results.strategy.result = 8

----------------------------------------------------------------------------
(* Sign of the value: a SubmarinePart1 and a SubmarinePart2 are given the  *)
(* same commands; a twin of each is given 'down -v' for every 'up v' and   *)
(* 'up -v' for every 'down v' (submarine.test.ts 76-81 gives 'forward 10'  *)
(* then 'forward -3').                                                     *)

Mirrored(d, v) ==
    CASE d = "up"      -> CommandText("down", -v)
      [] d = "down"    -> CommandText("up", -v)
      [] d = "forward" -> CommandText("forward", v)

SignCommand(d, v) ==
    /\ Part1Execute(CommandText(d, v))
    /\ Part2Execute(CommandText(d, v))
    /\ sign' = [before1 |-> sub1,
                twin1   |-> Part1Apply(sign.twin1, parseCommand(Mirrored(d, v))),
                before2 |-> sub2,
                twin2   |-> Part2Apply(sign.twin2, parseCommand(Mirrored(d, v)))]
    /\ UNCHANGED <<part3vars, comparevars, machine, memento, observable, chain,
                   limited, morevars>>

InitSign ==
    Part1Constructed /\ Part2Constructed /\ Part3Constructed(NoScannerData) /\ AuxInit
NextSign == \E d \in Directions, v \in (-MaxValue)..MaxValue : SignCommand(d, v)
SpecSign == InitSign /\ [][NextSign]_vars

(* C21: sign is not special-cased: in the simple and in the aimed variant  *)
(* 'forward v' followed by 'forward -v' restores horizontal and depth to   *)
(* what they were before the first of the two, and 'up v' has exactly the  *)
(* effect of 'down -v': an instance given 'up v' and one given 'down -v'   *)
(* from equal states end in equal states.                                  *)
C21_SignNotSpecial ==
    [][ /\ \A v \in (-MaxValue)..MaxValue :
             /\ (/\ call1.text = CommandText("forward", v)
                 /\ call1'.text = CommandText("forward", -v))
                   => /\ sub1'.horizontal = sign.before1.horizontal
                      /\ sub1'.depth = sign.before1.depth
             /\ (/\ call2.text = CommandText("forward", v)
                 /\ call2'.text = CommandText("forward", -v))
                   => /\ sub2'.horizontal = sign.before2.horizontal
                      /\ sub2'.depth = sign.before2.depth
        /\ sign.twin1 = sub1 => sign'.twin1 = sub1'
        /\ sign.twin2 = sub2 => sign'.twin2 = sub2' ]_vars

\* 'down 1', 'forward 2', 'forward -2' and then 'up 2' (the twins 'down -2')
C21_Witness ==
    /\ call2.text = CommandText("up", 2)
    /\ sign.before2 = [horizontal |-> 0, depth |-> 0, aim |-> 1]
    /\ sub2 = [horizontal |-> 0, depth |-> 0, aim |-> -1]
    /\ sign.twin2 = sub2
    /\ sub1 = [horizontal |-> 0, depth |-> -1]
    /\ sign.twin1 = sub1

----------------------------------------------------------------------------
(* StateMachineSubmarine (advanced-patterns.ts)                            *)

MaxCalls == 3

\* values on both sides of the literal 5 of CruisingState.getNextState
MachineValues ==
    { -(DiveThreshold + 1), -DiveThreshold, 0, 1, DiveThreshold, DiveThreshold + 1 }

MachineTexts ==
    { CommandText(d, v) : d \in Directions, v \in MachineValues } \cup MalformedTexts

\* a SurfacedState that can execute every command
SurfacedCanExecuteAll(command) == command.direction \in Directions

SurfacedCanExecute(command) ==
    command.direction = "forward" \/ command.direction = "down"

SurfacedGetNextState(command) ==
    IF command.direction = "down" THEN "DIVING" ELSE "SURFACED"

\* SurfacedState.execute: the new context, or the error it throws
SurfacedExecute(command, context) ==
    IF ~ SurfacedCanExecute(command)
    THEN [threw |-> TRUE, message |-> <<"Cannot go up when surfaced">>]
    ELSE LET position == context.position
             newPosition ==
                 IF command.direction = "forward"
                 THEN [position EXCEPT !.horizontal = position.horizontal + command.value]
                 ELSE [position EXCEPT !.aim = position.aim + command.value]
         IN  [threw |-> FALSE,
              context |-> [currentState |-> SurfacedGetNextState(command),
                           position |-> newPosition]]

CruisingCanExecute(command) == TRUE

\* a CruisingState that compares the magnitude of the value with 5
CruisingGetNextStateMagnitude(command) ==
    IF command.direction = "up" /\ Abs(command.value) > DiveThreshold THEN "ASCENDING"
    ELSE IF command.direction = "down" /\ Abs(command.value) > DiveThreshold
         THEN "DIVING"
         ELSE "CRUISING"

\* a CruisingState that surfaces on an 'up' above the threshold
CruisingGetNextStateSurfaces(command) ==
    IF command.direction = "up" /\ command.value > DiveThreshold THEN "SURFACED"
    ELSE IF command.direction = "down" /\ command.value > DiveThreshold
         THEN "DIVING"
         ELSE "CRUISING"

CruisingGetNextState(command) ==
    IF command.direction = "up" /\ command.value > DiveThreshold THEN "ASCENDING"
    ELSE IF command.direction = "down" /\ command.value > DiveThreshold
         THEN "DIVING"
         ELSE "CRUISING"

\* a CruisingState whose forward leaves the depth alone
CruisingExecuteLevel(command, context) ==
    LET position == context.position
        newPosition ==
            CASE command.direction = "forward" ->
                    [position EXCEPT
                        !.horizontal = position.horizontal + command.value]
              [] command.direction = "down" ->
                    [position EXCEPT !.aim = position.aim + command.value]
              [] command.direction = "up" ->
                    [position EXCEPT !.aim = position.aim - command.value]
    IN  [threw |-> FALSE,
         context |-> [currentState |-> CruisingGetNextState(command),
                      position |-> newPosition]]

CruisingExecute(command, context) ==
    LET position == context.position
        newPosition ==
            CASE command.direction = "forward" ->
                    [position EXCEPT
                        !.horizontal = position.horizontal + command.value,
                        !.depth = position.depth + position.aim * command.value]
              [] command.direction = "down" ->
                    [position EXCEPT !.aim = position.aim + command.value]
              [] command.direction = "up" ->
                    [position EXCEPT !.aim = position.aim - command.value]
    IN  [threw |-> FALSE,
         context |-> [currentState |-> CruisingGetNextState(command),
                      position |-> newPosition]]

\* this.states: the NavigationState object registered for each state
states ==
    [s \in {"SURFACED", "CRUISING", "DIVING", "ASCENDING"} |->
        IF s = "SURFACED" THEN "SurfacedState" ELSE "CruisingState"]

canExecute(class, command) ==
    IF class = "SurfacedState" THEN SurfacedCanExecute(command)
    ELSE CruisingCanExecute(command)

execute(class, command, context) ==
    IF class = "SurfacedState" THEN SurfacedExecute(command, context)
    ELSE CruisingExecute(command, context)

\* the text `Cannot execute ${direction} in state ${currentState}`
CannotExecute(direction, currentState) ==
    <<"Cannot execute", direction, "in state", currentState>>

\* StateMachineSubmarine.executeCommand: the machine after the call
MachineAfter(m, commandStr) ==
    LET command == parseCommand(commandStr)
        current == m.context.currentState
        Thrown(outcome, message) ==
            [m EXCEPT !.call = [text |-> commandStr, outcome |-> outcome,
                                message |-> message],
                      !.count = m.count + 1]
    IN  IF ~ command.ok THEN Thrown("ParseError", <<>>)
        ELSE IF current \notin DOMAIN states
        THEN Thrown("Error", <<"Unknown state:", current>>)
        ELSE IF ~ canExecute(states[current], command)
        THEN Thrown("Error", CannotExecute(command.direction, current))
        ELSE LET done == execute(states[current], command, m.context)
             IN  IF done.threw THEN Thrown("Error", done.message)
                 ELSE [context |-> done.context,
                       call |-> [text |-> commandStr, outcome |-> "ok",
                                 message |-> <<>>],
                       count |-> m.count + 1]

MachineExecuteCommand(commandStr) ==
    /\ machine.count < MaxCalls
    /\ machine' = MachineAfter(machine, commandStr)
    /\ UNCHANGED <<part1vars, part2vars, part3vars, comparevars, sign, memento,
                   observable, chain, limited, morevars>>

InitMachine ==
    Part1Constructed /\ Part2Constructed /\ Part3Constructed(NoScannerData) /\ AuxInit
NextMachine == \E t \in MachineTexts : MachineExecuteCommand(t)
SpecMachine == InitMachine /\ [][NextMachine]_vars

\* the step is an executeCommand(CommandText(d, v)) call on the machine
MachineCalled(d, v) ==
    /\ machine'.count = machine.count + 1
    /\ machine'.call.text = CommandText(d, v)

Surfaced == machine.context.currentState = "SURFACED"

(* C22: the machine starts in SURFACED; while SURFACED an 'up' command     *)
(* fails with 'Cannot execute up in state SURFACED' and leaves state and   *)
(* position as they were, 'forward' is accepted and stays SURFACED, and    *)
(* 'down' of any value is accepted and moves to DIVING.                    *)
C22_SurfacedRules ==
    /\ machine.context.currentState = "SURFACED"
    /\ [][ \A v \in MachineValues :
             /\ (Surfaced /\ MachineCalled("up", v))
                   => /\ machine'.call.outcome = "Error"
                      /\ machine'.call.message
                            = <<"Cannot execute", "up", "in state", "SURFACED">>
                      /\ machine'.context = machine.context
             /\ (Surfaced /\ MachineCalled("forward", v))
                   => /\ machine'.call.outcome = "ok"
                      /\ machine'.context.currentState = "SURFACED"
             /\ (Surfaced /\ MachineCalled("down", v))
                   => /\ machine'.call.outcome = "ok"
                      /\ machine'.context.currentState = "DIVING" ]_vars

\* 'forward 5', then 'up 1' refused on the surface
C22_Witness ==
    /\ machine.count = 2
    /\ machine.call.text = CommandText("up", 1)
    /\ machine.call.outcome = "Error"
    /\ machine.context =
          [currentState |-> "SURFACED",
           position |-> [horizontal |-> DiveThreshold, depth |-> 0, aim |-> 0]]

CruisingFamily ==
    machine.context.currentState \in {"DIVING", "CRUISING", "ASCENDING"}

(* C23 as stated: from DIVING, CRUISING and ASCENDING every command is     *)
(* accepted, and the next state is DIVING exactly when the command is a    *)
(* down whose magnitude exceeds 5, ASCENDING exactly when it is an up      *)
(* whose magnitude exceeds 5, and CRUISING otherwise.                      *)
C23_MagnitudeDecides ==
    [][ \A d \in Directions, v \in MachineValues :
          (CruisingFamily /\ MachineCalled(d, v))
             => /\ machine'.call.outcome = "ok"
                /\ machine'.context.currentState =
                      IF d = "down" /\ Abs(v) > DiveThreshold THEN "DIVING"
                      ELSE IF d = "up" /\ Abs(v) > DiveThreshold THEN "ASCENDING"
                      ELSE "CRUISING" ]_vars

(* C23 amended: from DIVING, CRUISING and ASCENDING every command is       *)
(* accepted, and the next state is DIVING exactly when the command is a    *)
(* down whose value exceeds 5, ASCENDING exactly when it is an up whose    *)
(* value exceeds 5, and CRUISING otherwise (every forward, and every down  *)
(* or up of a negative value).                                             *)
C23_ValueDecides ==
    [][ \A d \in Directions, v \in MachineValues :
          (CruisingFamily /\ MachineCalled(d, v))
             => /\ machine'.call.outcome = "ok"
                /\ machine'.context.currentState =
                      IF d = "down" /\ v > DiveThreshold THEN "DIVING"
                      ELSE IF d = "up" /\ v > DiveThreshold THEN "ASCENDING"
                      ELSE "CRUISING" ]_vars

\* 'down 6' to DIVING, 'up 6' to ASCENDING, then 'down -6' to CRUISING
C23_Witness ==
    /\ machine.count = 3
    /\ machine.call.text = CommandText("down", -(DiveThreshold + 1))
    /\ machine.call.outcome = "ok"
    /\ machine.context =
          [currentState |-> "CRUISING",
           position |-> [horizontal |-> 0, depth |-> 0, aim |-> -(DiveThreshold + 1)]]

----------------------------------------------------------------------------
(* MementoSubmarine and SubmarineCaretaker (advanced-patterns.ts)          *)

MaxOps == 6

MementoTexts ==
    { CommandText(d, 1) : d \in Directions } \cup { DirectionText("forward") }

\* the switch of MementoSubmarine.executeCommand
MementoApply(position, command) ==
    CASE command.direction = "forward" ->
            [position EXCEPT !.horizontal = position.horizontal + command.value,
                             !.depth = position.depth + position.aim * command.value]
      [] command.direction = "down" ->
            [position EXCEPT !.aim = position.aim + command.value]
      [] command.direction = "up" ->
            [position EXCEPT !.aim = position.aim - command.value]

\* MementoSubmarine.save at the time now: a snapshot with a copy of the position
SubmarineSave(position, now) == [position |-> position, timestamp |-> now]

\* MementoSubmarine.restore: the position becomes a copy of the snapshot's
SubmarineRestore(snapshot) == snapshot.position

\* mementos.slice(0, end): the first end elements, all of them if end exceeds
\* the length
slice(list, end) ==
    SubSeq(list, 1, IF end > Len(list) THEN Len(list) ELSE end)

\* a canUndo that is true whenever there is a current snapshot
canUndoAtFirst(c) == c.currentIndex >= 0

canUndo(c) == c.currentIndex > 0

canRedo(c) == c.currentIndex < Len(c.mementos) - 1

getHistory(c) ==
    [i \in 1..Len(c.mementos) |->
        [position |-> c.mementos[i].position, timestamp |-> c.mementos[i].timestamp]]

\* the caller's notes after a save or a restore
Noted(c) ==
    [c EXCEPT !.settled = [position |-> c.position, currentIndex |-> c.currentIndex],
              !.settledBefore = c.settled]

\* a save that keeps the snapshots after the current one
SaveKeepsBranch(c) ==
    Noted([c EXCEPT !.mementos = Append(c.mementos, SubmarineSave(c.position, c.ops)),
                    !.currentIndex = c.currentIndex + 1,
                    !.last = [op |-> "save", returned |-> "void"],
                    !.ops = c.ops + 1])

\* SubmarineCaretaker.save(submarine)
Save(c) ==
    Noted([c EXCEPT !.mementos = Append(slice(c.mementos, c.currentIndex + 1),
                                        SubmarineSave(c.position, c.ops)),
                    !.currentIndex = c.currentIndex + 1,
                    !.last = [op |-> "save", returned |-> "void"],
                    !.ops = c.ops + 1])

\* an undo that restores the snapshot it was at
UndoRestoresCurrent(c) ==
    IF c.currentIndex > 0
    THEN Noted([c EXCEPT !.currentIndex = c.currentIndex - 1,
                         !.position = SubmarineRestore(c.mementos[c.currentIndex + 1]),
                         !.last = [op |-> "undo", returned |-> "true"],
                         !.ops = c.ops + 1])
    ELSE [c EXCEPT !.last = [op |-> "undo", returned |-> "false"],
                   !.ops = c.ops + 1]

\* an undo that also steps back from the first snapshot
UndoBeforeFirst(c) ==
    IF c.currentIndex >= 0
    THEN Noted([c EXCEPT !.currentIndex = c.currentIndex - 1,
                         !.position = IF c.currentIndex > 0
                                      THEN SubmarineRestore(c.mementos[c.currentIndex])
                                      ELSE c.position,
                         !.last = [op |-> "undo", returned |-> "true"],
                         !.ops = c.ops + 1])
    ELSE [c EXCEPT !.last = [op |-> "undo", returned |-> "false"],
                   !.ops = c.ops + 1]

\* SubmarineCaretaker.undo(submarine); mementos[i] of the code is
\* mementos[i + 1] here
Undo(c) ==
    IF c.currentIndex > 0
    THEN Noted([c EXCEPT !.currentIndex = c.currentIndex - 1,
                         !.position = SubmarineRestore(c.mementos[c.currentIndex]),
                         !.last = [op |-> "undo", returned |-> "true"],
                         !.ops = c.ops + 1])
    ELSE [c EXCEPT !.last = [op |-> "undo", returned |-> "false"],
                   !.ops = c.ops + 1]

\* SubmarineCaretaker.redo(submarine)
Redo(c) ==
    IF c.currentIndex < Len(c.mementos) - 1
    THEN Noted([c EXCEPT !.currentIndex = c.currentIndex + 1,
                         !.position = SubmarineRestore(c.mementos[c.currentIndex + 2]),
                         !.last = [op |-> "redo", returned |-> "true"],
                         !.ops = c.ops + 1])
    ELSE [c EXCEPT !.last = [op |-> "redo", returned |-> "false"],
                   !.ops = c.ops + 1]

MementoFrame ==
    UNCHANGED <<part1vars, part2vars, part3vars, comparevars, sign, machine,
                observable, chain, limited, morevars>>

MementoExecuteCommand(commandStr) ==
    LET command == parseCommand(commandStr) IN
    /\ memento.ops < MaxOps
    /\ memento' =
          IF ~ command.ok
          THEN [memento EXCEPT !.last = [op |-> "executeCommand",
                                         returned |-> "ParseError"],
                               !.ops = memento.ops + 1]
          ELSE [memento EXCEPT !.position = MementoApply(memento.position, command),
                               !.last = [op |-> "executeCommand", returned |-> "void"],
                               !.ops = memento.ops + 1]
    /\ MementoFrame

CaretakerSave == memento.ops < MaxOps /\ memento' = Save(memento) /\ MementoFrame

CaretakerUndo == memento.ops < MaxOps /\ memento' = Undo(memento) /\ MementoFrame

CaretakerRedo == memento.ops < MaxOps /\ memento' = Redo(memento) /\ MementoFrame

InitMemento ==
    Part1Constructed /\ Part2Constructed /\ Part3Constructed(NoScannerData) /\ AuxInit
NextMemento ==
    \/ \E t \in MementoTexts : MementoExecuteCommand(t)
    \/ CaretakerSave
    \/ CaretakerUndo
    \/ CaretakerRedo
SpecMemento == InitMemento /\ [][NextMemento]_vars

\* the step is a call of op on the caretaker or the submarine
MementoCalled(op) == memento'.ops = memento.ops + 1 /\ memento'.last.op = op

MementoReturned(op, value) ==
    MementoCalled(op) /\ memento'.last.returned = value

(* C24: when undo returns true the submarine's position is the snapshot    *)
(* saved immediately before the caretaker's current one; when redo returns *)
(* true it is the snapshot immediately after; a redo right after an undo   *)
(* that returned true returns true and puts the submarine's position and   *)
(* the caretaker's index back to what they were right after the last save  *)
(* or restore before the undo.                                             *)
C24_UndoRedo ==
    [][ /\ MementoReturned("undo", "true")
             => memento'.position
                   = getHistory(memento)[memento.currentIndex].position
        /\ MementoReturned("redo", "true")
             => memento'.position
                   = getHistory(memento)[memento.currentIndex + 2].position
        /\ (/\ memento.last = [op |-> "undo", returned |-> "true"]
            /\ MementoCalled("redo"))
             => /\ memento'.last.returned = "true"
                /\ memento'.position = memento.settledBefore.position
                /\ memento'.currentIndex = memento.settledBefore.currentIndex ]_vars

\* save, 'forward 1', save, 'down 1', undo, redo
C24_Witness ==
    /\ memento.ops = 6
    /\ memento.last = [op |-> "redo", returned |-> "true"]
    /\ memento.position = [horizontal |-> 1, depth |-> 0, aim |-> 0]
    /\ memento.currentIndex = 1
    /\ memento.settledBefore.position = [horizontal |-> 0, depth |-> 0, aim |-> 0]

(* C25: save discards the redo branch: right after any save canRedo() is   *)
(* false, a redo returns false and leaves the submarine as it was, and     *)
(* getHistory() is the snapshots up to the previous current index followed *)
(* by the new snapshot of the submarine's position.                        *)
C25_SaveDiscardsRedo ==
    [][ /\ MementoCalled("save")
             => LET history == getHistory(memento') IN
                /\ ~ canRedo(memento')
                /\ Len(history) = memento.currentIndex + 2
                /\ SubSeq(history, 1, Len(history) - 1)
                      = SubSeq(getHistory(memento), 1, memento.currentIndex + 1)
                /\ history[Len(history)].position = memento.position
        /\ (memento.last.op = "save" /\ MementoCalled("redo"))
             => /\ memento'.last.returned = "false"
                /\ memento'.position = memento.position ]_vars

\* save, 'forward 1', save, undo, 'down 1', save: the second snapshot is gone
C25_Witness ==
    /\ memento.ops = 6
    /\ memento.last.op = "save"
    /\ memento.currentIndex = 1
    /\ Len(memento.mementos) = 2
    /\ memento.mementos[2].position = [horizontal |-> 0, depth |-> 0, aim |-> 1]

(* C26: canUndo() is true exactly when a following undo returns true, and  *)
(* canRedo() exactly when a following redo returns true; an undo or redo   *)
(* that returns false changes neither the caretaker nor the submarine;     *)
(* with fewer than two snapshots undo returns false.                       *)
C26_CanUndoCanRedo ==
    [][ /\ MementoCalled("undo")
             => (memento'.last.returned = "true" <=> canUndo(memento))
        /\ MementoCalled("redo")
             => (memento'.last.returned = "true" <=> canRedo(memento))
        /\ (MementoReturned("undo", "false") \/ MementoReturned("redo", "false"))
             => /\ memento'.mementos = memento.mementos
                /\ memento'.currentIndex = memento.currentIndex
                /\ memento'.position = memento.position
        /\ (MementoCalled("undo") /\ Len(memento.mementos) < 2)
             => memento'.last.returned = "false" ]_vars

\* save, 'forward 1', save, undo, and an undo that is refused
C26_Witness ==
    /\ memento.ops = 5
    /\ memento.last = [op |-> "undo", returned |-> "false"]
    /\ Len(memento.mementos) = 2
    /\ memento.currentIndex = 0
    /\ memento.position = [horizontal |-> 0, depth |-> 0, aim |-> 0]

----------------------------------------------------------------------------
(* ObservableSubmarine and PositionLogger (advanced-patterns.ts)           *)

ObservableTexts ==
    { CommandText("forward", 1), CommandText("down", 1), CommandText("up", 1),
      DirectionText("down") \o <<" ", "x">> }

\* the switch of ObservableSubmarine.executeCommand
ObservableApply(position, command) ==
    CASE command.direction = "forward" ->
            [position EXCEPT !.horizontal = position.horizontal + command.value,
                             !.depth = position.depth + position.aim * command.value]
      [] command.direction = "down" ->
            [position EXCEPT !.aim = position.aim + command.value]
      [] command.direction = "up" ->
            [position EXCEPT !.aim = position.aim - command.value]

\* PositionLogger.onPositionChanged: a copy of the position is pushed
onPositionChanged(log, position) == Append(log, position)

\* a notification that reaches one of the observers only
notifyOnePositionObserver(s) ==
    [s EXCEPT !.log =
        [o \in Loggers |->
            IF s.positionObservers # {}
               /\ o = CHOOSE one \in s.positionObservers : TRUE
            THEN onPositionChanged(s.log[o], s.position)
            ELSE s.log[o]]]

\* one snapshot { ...this.position } is given to every observer of the set
notifyPositionObservers(s) ==
    [s EXCEPT !.log =
        [o \in Loggers |->
            IF o \in s.positionObservers
            THEN onPositionChanged(s.log[o], s.position)
            ELSE s.log[o]]]

\* commandObservers.forEach: no class of the repository implements
\* CommandObserver, the set stays empty and nobody is called
notifyCommandObservers(s, command) == s

ObservableFrame ==
    UNCHANGED <<part1vars, part2vars, part3vars, comparevars, sign, machine,
                memento, chain, limited, morevars>>

\* subscribeToPosition(observer); the caller keeps the function returned
SubscribeToPosition(observer) ==
    /\ observable' =
          [observable EXCEPT
              !.positionObservers = observable.positionObservers \cup {observer},
              !.unsubscribes = observable.unsubscribes \cup {observer},
              !.subscribed = observable.subscribed \cup {observer}]
    /\ ObservableFrame

\* a function returned by subscribeToPosition(observer) is called
Unsubscribe(observer) ==
    /\ observer \in observable.unsubscribes
    /\ observable' =
          [observable EXCEPT
              !.positionObservers = observable.positionObservers \ {observer},
              !.subscribed = observable.subscribed \ {observer}]
    /\ ObservableFrame

ObservableExecuteCommand(commandStr) ==
    LET command == parseCommand(commandStr)
        called(outcome) ==
            [observable EXCEPT !.call = [text |-> commandStr, outcome |-> outcome],
                               !.count = observable.count + 1]
    IN  /\ observable.count < MaxCalls
        /\ observable' =
              IF ~ command.ok THEN called("ParseError")
              ELSE notifyCommandObservers(
                      notifyPositionObservers(
                         [called("ok") EXCEPT
                             !.position = ObservableApply(observable.position, command)]),
                      command)
        /\ ObservableFrame

InitObservable ==
    Part1Constructed /\ Part2Constructed /\ Part3Constructed(NoScannerData) /\ AuxInit
NextObservable ==
    \/ \E o \in Loggers : SubscribeToPosition(o)
    \/ \E o \in Loggers : Unsubscribe(o)
    \/ \E t \in ObservableTexts : ObservableExecuteCommand(t)
SpecObservable == InitObservable /\ [][NextObservable]_vars

----------------------------------------------------------------------------
(* ChainOfResponsibilitySubmarine (advanced-patterns.ts)                   *)

\* the limits a caller configures, and 0 for an option left out
ChainOptions ==
    [maxDepth : {0, MaxValue}, maxSpeed : {0, MaxValue}, logging : BOOLEAN]

ChainValues == { -(MaxValue + 1), 1, MaxValue + 1 }

ChainTexts ==
    { CommandText(d, v) : d \in Directions, v \in ChainValues }
        \cup { DirectionText("up") }

\* the switch of ExecutionHandler.handle
ExecutionApply(position, command) ==
    CASE command.direction = "forward" ->
            [position EXCEPT !.horizontal = position.horizontal + command.value,
                             !.depth = position.depth + position.aim * command.value]
      [] command.direction = "down" ->
            [position EXCEPT !.aim = position.aim + command.value]
      [] command.direction = "up" ->
            [position EXCEPT !.aim = position.aim - command.value]

\* DepthLimitHandler.handle: the depth predicted for the command
predictedDepth(command, position) ==
    IF command.direction = "forward"
    THEN position.depth + position.aim * command.value
    ELSE position.depth

\* the text `Processing ${direction} ${value} at (${horizontal}, ${depth})`
Processing(command, position) ==
    [direction |-> command.direction, value |-> command.value,
     horizontal |-> position.horizontal, depth |-> position.depth]

RECURSIVE handle(_, _, _, _, _, _)
\* handlers[i].handle(command, position), each handler ending with
\* super.handle, which calls the next handler or returns the position;
\* limits holds the maxDepth and maxSpeed the handlers were made with; the
\* result is the position returned or the error thrown, and the logs
handle(handlers, limits, i, command, position, logs) ==
    IF i > Len(handlers)
    THEN [threw |-> FALSE, position |-> position, logs |-> logs]
    ELSE CASE handlers[i] = "LoggingHandler" ->
                 handle(handlers, limits, i + 1, command, position,
                        Append(logs, Processing(command, position)))
           [] handlers[i] = "DepthLimitHandler" ->
                 IF predictedDepth(command, position) > limits.maxDepth
                 THEN [threw |-> TRUE, logs |-> logs,
                       message |-> [text |-> "Depth limit would be exceeded",
                                    args |-> <<predictedDepth(command, position)>>]]
                 ELSE handle(handlers, limits, i + 1, command, position, logs)
           [] handlers[i] = "SpeedLimitHandler" ->
                 IF command.direction = "forward" /\ command.value > limits.maxSpeed
                 THEN [threw |-> TRUE, logs |-> logs,
                       message |-> [text |-> "Speed limit exceeded",
                                    args |-> <<command.value, limits.maxSpeed>>]]
                 ELSE handle(handlers, limits, i + 1, command, position, logs)
           [] handlers[i] = "ExecutionHandler" ->
                 handle(handlers, limits, i + 1, command,
                        ExecutionApply(position, command), logs)

\* ChainOfResponsibilitySubmarine.executeCommand: the submarine after the call
ChainAfter(c, commandStr) ==
    LET command == parseCommand(commandStr)
        called(outcome, message) ==
            [c EXCEPT !.call = [text |-> commandStr, outcome |-> outcome,
                                message |-> message],
                      !.count = c.count + 1]
    IN  IF ~ command.ok THEN called("ParseError", NoMessage)
        ELSE LET handled == handle(c.handlers, c.options, 1, command,
                                   c.position, c.logs)
             IN  IF handled.threw
                 THEN [called("Error", handled.message) EXCEPT
                          !.logs = handled.logs]
                 ELSE [called("ok", NoMessage) EXCEPT
                          !.logs = handled.logs,
                          !.position = handled.position]

ChainFrame ==
    UNCHANGED <<part1vars, part2vars, part3vars, comparevars, sign, machine,
                memento, observable, limited, morevars>>

\* the caller makes its submarine with options
NewChain(options) ==
    /\ chain = NoChain
    /\ chain' = ChainConstructed(options)
    /\ ChainFrame

ChainExecuteCommand(commandStr) ==
    /\ chain.count < MaxCalls
    /\ chain' = ChainAfter(chain, commandStr)
    /\ ChainFrame

InitChain ==
    Part1Constructed /\ Part2Constructed /\ Part3Constructed(NoScannerData) /\ AuxInit
NextChain ==
    \/ \E options \in ChainOptions : NewChain(options)
    \/ \E t \in ChainTexts : ChainExecuteCommand(t)
SpecChain == InitChain /\ [][NextChain]_vars

\* the step is an executeCommand('forward v') call on the chain submarine
ChainForward(v) ==
    /\ chain'.count = chain.count + 1
    /\ chain'.call.text = CommandText("forward", v)

DepthWouldExceed(v) ==
    chain.position.depth + chain.position.aim * v > chain.options.maxDepth

(* C28: a submarine built with logging, maxSpeed and maxDepth passes each  *)
(* command through Logging, Speed validation, Depth validation, Execution  *)
(* in this order: a forward command that violates both the speed limit and *)
(* the depth limit is rejected with the speed-limit error.                 *)
C28_SpeedBeforeDepth ==
    [][ \A v \in ChainValues :
          (/\ chain.options.logging
           /\ chain.options.maxSpeed > 0
           /\ chain.options.maxDepth > 0
           /\ ChainForward(v)
           /\ v > chain.options.maxSpeed
           /\ DepthWouldExceed(v))
             => /\ chain'.call.outcome = "Error"
                /\ chain'.call.message.text = "Speed limit exceeded" ]_vars

(* C29: with a positive maxDepth M the depth never exceeds M: a forward    *)
(* command whose resulting depth would exceed M throws a 'Depth limit'     *)
(* error and leaves the position unchanged; with a positive maxSpeed S a   *)
(* 'forward v' with v > S throws 'Speed limit exceeded' and leaves the     *)
(* position unchanged.                                                     *)
C29_LimitsEnforced ==
    [][ /\ chain'.options.maxDepth > 0
             => chain'.position.depth <= chain'.options.maxDepth
        /\ \A v \in ChainValues :
             /\ (/\ chain.options.maxDepth > 0
                 /\ ChainForward(v)
                 /\ DepthWouldExceed(v))
                   => /\ chain'.call.outcome = "Error"
                      /\ chain'.call.message.text = "Depth limit would be exceeded"
                      /\ chain'.position = chain.position
             /\ (/\ chain.options.maxSpeed > 0
                 /\ ChainForward(v)
                 /\ v > chain.options.maxSpeed)
                   => /\ chain'.call.outcome = "Error"
                      /\ chain'.call.message.text = "Speed limit exceeded"
                      /\ chain'.position = chain.position ]_vars

----------------------------------------------------------------------------
(* ConfigurableSubmarine, ValidationDecorator and MilitarySubmarine         *)
(* (advanced-patterns.ts): the caller catches what executeCommand throws   *)

LimitedTexts ==
    { CommandText(d, v) : d \in Directions, v \in {1, MaxValue + 1} }
        \cup { DirectionText("forward") }

MilitaryTexts ==
    { CommandText(d, MilitaryMaxSpeed) : d \in Directions }
        \cup { CommandText("forward", MilitaryMaxSpeed + 1) }

\* the switch shared, copy by copy, by BasicSubmarine, ConfigurableSubmarine
\* and MilitarySubmarine: this.position is changed in place
LimitedApply(position, command) ==
    CASE command.direction = "forward" ->
            [position EXCEPT !.horizontal = position.horizontal + command.value,
                             !.depth = position.depth + position.aim * command.value]
      [] command.direction = "down" ->
            [position EXCEPT !.aim = position.aim + command.value]
      [] command.direction = "up" ->
            [position EXCEPT !.aim = position.aim - command.value]

LimitedCall(commandStr, outcome, text, args) ==
    [text |-> commandStr, outcome |-> outcome,
     message |-> [text |-> text, args |-> args]]

\* ConfigurableSubmarine.executeCommand: the submarine after the call
ConfigurableAfter(s, commandStr) ==
    LET command == parseCommand(commandStr) IN
    IF ~ command.ok
    THEN [s EXCEPT !.call = LimitedCall(commandStr, "ParseError", "", <<>>)]
    ELSE IF command.direction = "forward" /\ command.value > s.config.maxSpeed
    THEN [s EXCEPT !.call = LimitedCall(commandStr, "Error", "Speed limit exceeded",
                                        <<command.value, s.config.maxSpeed>>)]
    ELSE LET moved == LimitedApply(s.position, command) IN
         IF moved.depth > s.config.maxDepth
         THEN [s EXCEPT !.position = moved,
                        !.call = LimitedCall(commandStr, "Error", "Depth limit exceeded",
                                             <<moved.depth, s.config.maxDepth>>)]
         ELSE [s EXCEPT !.position = moved,
                        !.commandLog = IF s.config.enableLogging
                                       THEN Append(s.commandLog, commandStr)
                                       ELSE s.commandLog,
                        !.commandCount = IF s.config.enableTelemetry
                                         THEN s.commandCount + 1
                                         ELSE s.commandCount,
                        !.call = LimitedCall(commandStr, "ok", "", <<>>)]

\* ValidationDecorator.executeCommand over BasicSubmarine.executeCommand
DecoratedAfter(s, commandStr) ==
    LET command == parseCommand(commandStr) IN
    IF ~ command.ok
    THEN [s EXCEPT !.call = LimitedCall(commandStr, "ParseError", "", <<>>)]
    ELSE LET pos == LimitedApply(s.position, command) IN
         IF pos.depth > s.maxDepth
         THEN [s EXCEPT !.position = pos,
                        !.call = LimitedCall(commandStr, "Error", "Depth limit exceeded",
                                             <<pos.depth, s.maxDepth>>)]
         ELSE [s EXCEPT !.position = pos,
                        !.call = LimitedCall(commandStr, "ok", "", <<>>)]

\* MilitarySubmarine.executeCommand
MilitaryAfter(s, commandStr) ==
    LET command == parseCommand(commandStr) IN
    IF ~ command.ok
    THEN [s EXCEPT !.call = LimitedCall(commandStr, "ParseError", "", <<>>)]
    ELSE IF command.direction = "forward" /\ command.value > MilitaryMaxSpeed
    THEN [s EXCEPT !.call = LimitedCall(commandStr, "Error",
                                        "Military speed limit exceeded", <<>>)]
    ELSE LET moved == LimitedApply(s.position, command) IN
         IF moved.depth > MilitaryMaxDepth
         THEN [s EXCEPT !.position = moved,
                        !.call = LimitedCall(commandStr, "Error",
                                             "Military depth limit exceeded", <<>>)]
         ELSE [s EXCEPT !.position = moved,
                        !.call = LimitedCall(commandStr, "ok", "", <<>>)]

LimitedFrame ==
    UNCHANGED <<part1vars, part2vars, part3vars, comparevars, sign, machine,
                memento, observable, chain, morevars>>

ConfigurableExecuteCommand(commandStr) ==
    /\ limited.count < MaxCalls
    /\ limited' = [limited EXCEPT
                      !.configurable = ConfigurableAfter(limited.configurable, commandStr),
                      !.count = limited.count + 1]
    /\ LimitedFrame

DecoratedExecuteCommand(commandStr) ==
    /\ limited.count < MaxCalls
    /\ limited' = [limited EXCEPT
                      !.decorated = DecoratedAfter(limited.decorated, commandStr),
                      !.count = limited.count + 1]
    /\ LimitedFrame

MilitaryExecuteCommand(commandStr) ==
    /\ limited.count < MaxCalls
    /\ limited' = [limited EXCEPT
                      !.military = MilitaryAfter(limited.military, commandStr),
                      !.count = limited.count + 1]
    /\ LimitedFrame

InitLimited ==
    Part1Constructed /\ Part2Constructed /\ Part3Constructed(NoScannerData) /\ AuxInit
NextLimited ==
    \/ \E t \in LimitedTexts : ConfigurableExecuteCommand(t)
    \/ \E t \in LimitedTexts : DecoratedExecuteCommand(t)
    \/ \E t \in MilitaryTexts : MilitaryExecuteCommand(t)
SpecLimited == InitLimited /\ [][NextLimited]_vars

(* C30: the depth limit is an invariant: the initial depth being within    *)
(* maxDepth, after any sequence of executeCommand calls, those that throw  *)
(* 'Depth limit exceeded' and are caught included, getPosition().depth is  *)
(* at most maxDepth, for ConfigurableSubmarine, ValidationDecorator and    *)
(* MilitarySubmarine.                                                      *)
C30_DepthLimitInvariant ==
    /\ limited.configurable.position.depth <= limited.configurable.config.maxDepth
    /\ limited.decorated.position.depth <= limited.decorated.maxDepth
    /\ limited.military.position.depth <= MilitaryMaxDepth

----------------------------------------------------------------------------
(* CommandPatternSubmarine (alternative-solutions.ts)                      *)

\* new ForwardCommand(v), new DownCommand(v), new UpCommand(v)
CommandObjects ==
    [class : {"ForwardCommand", "DownCommand", "UpCommand"},
     value : {-1, MaxValue}]

\* command.execute(state)
CommandExecute(command, state) ==
    CASE command.class = "ForwardCommand" ->
            [state EXCEPT !.horizontal = state.horizontal + command.value]
      [] command.class = "DownCommand" ->
            [state EXCEPT !.depth = state.depth + command.value]
      [] command.class = "UpCommand" ->
            [state EXCEPT !.depth = state.depth - command.value]

\* an undo of UpCommand that moves up once more
CommandUndoUpSubtracts(command, state) ==
    CASE command.class = "ForwardCommand" ->
            [state EXCEPT !.horizontal = state.horizontal - command.value]
      [] command.class = "DownCommand" ->
            [state EXCEPT !.depth = state.depth - command.value]
      [] command.class = "UpCommand" ->
            [state EXCEPT !.depth = state.depth - command.value]

\* command.undo(state)
CommandUndo(command, state) ==
    CASE command.class = "ForwardCommand" ->
            [state EXCEPT !.horizontal = state.horizontal - command.value]
      [] command.class = "DownCommand" ->
            [state EXCEPT !.depth = state.depth - command.value]
      [] command.class = "UpCommand" ->
            [state EXCEPT !.depth = state.depth + command.value]

CommanderFrame ==
    UNCHANGED <<part1vars, part2vars, part3vars, comparevars, sign, machine,
                memento, observable, chain, limited, factory, decorator, heap, ordered>>

\* CommandPatternSubmarine.executeCommand(command)
CommanderExecuteCommand(command) ==
    /\ commander.ops < MaxOps
    /\ Len(commander.history) < MaxCalls
    /\ commander' =
          [commander EXCEPT
              !.state = CommandExecute(command, commander.state),
              !.history = Append(commander.history, command),
              !.last = "executeCommand",
              !.before = [position |-> commander.state,
                          history |-> Len(commander.history)],
              !.ops = commander.ops + 1]
    /\ CommanderFrame

\* CommandPatternSubmarine.undo(): history.pop() gives undefined when the
\* history is empty
CommanderUndo ==
    /\ commander.ops < MaxOps
    /\ commander' =
          IF commander.history = <<>>
          THEN [commander EXCEPT !.last = "undo", !.ops = commander.ops + 1]
          ELSE [commander EXCEPT
                   !.state = CommandUndo(commander.history[Len(commander.history)],
                                         commander.state),
                   !.history = SubSeq(commander.history, 1,
                                      Len(commander.history) - 1),
                   !.last = "undo",
                   !.ops = commander.ops + 1]
    /\ CommanderFrame

InitCommander ==
    Part1Constructed /\ Part2Constructed /\ Part3Constructed(NoScannerData) /\ AuxInit
NextCommander ==
    \/ \E command \in CommandObjects : CommanderExecuteCommand(command)
    \/ CommanderUndo
SpecCommander == InitCommander /\ [][NextCommander]_vars

CommanderCalled(op) ==
    commander'.ops = commander.ops + 1 /\ commander'.last = op

(* C31: undo reverses the most recently executed command: an undo right    *)
(* after executeCommand(c) restores position and history length to what    *)
(* they were before c; whenever as many commands have been undone as were  *)
(* executed (the history is empty) the position is (0,0,0); an undo with   *)
(* an empty history changes neither position nor history.                  *)
C31_UndoReverses ==
    [][ /\ (commander.last = "executeCommand" /\ CommanderCalled("undo"))
             => /\ commander'.state = commander.before.position
                /\ Len(commander'.history) = commander.before.history
        /\ commander'.history = <<>>
             => commander'.state = [horizontal |-> 0, depth |-> 0, aim |-> 0]
        /\ (commander.history = <<>> /\ CommanderCalled("undo"))
             => /\ commander'.state = commander.state
                /\ commander'.history = commander.history ]_vars

\* ForwardCommand(2) and UpCommand(-1) executed, then two undos and one more
C31_Witness ==
    /\ commander.ops = 5
    /\ commander.last = "undo"
    /\ commander.history = <<>>
    /\ commander.before.position = [horizontal |-> MaxValue, depth |-> 0, aim |-> 0]
    /\ commander.state = [horizontal |-> 0, depth |-> 0, aim |-> 0]

----------------------------------------------------------------------------
(* The scan list against the visited log *)

\* the entries of the visited log at which the Scan Source has data, in visit
\* order, each with its sample
RECURSIVE ScansAlong(_)
ScansAlong(log) ==
    IF log = <<>> THEN <<>>
    ELSE LET at == log[Len(log)]
             key == FormatKey(at.horizontal, at.depth) IN
         IF key \in DOMAIN scannerData
         THEN Append(ScansAlong(SubSeq(log, 1, Len(log) - 1)),
                     [position |-> at, scanResult |-> scannerData[key]])
         ELSE ScansAlong(SubSeq(log, 1, Len(log) - 1))

\* C32: the scan list of SubmarinePart3 holds, in visit order, exactly one entry
\* for every entry of the visited log (origin and revisits included) at which
\* the Scan Source has data, with that position and its 9-character sample, and
\* it is never longer than the visited log
C32_ScansFollowVisits ==
    /\ scannedData = ScansAlong(visitedPositions)
    /\ \A i \in 1..Len(scannedData) : Len(scannedData[i].scanResult) = 9
    /\ Len(scannedData) <= Len(visitedPositions)

\* a scanned position is visited a second time and scanned again, with an
\* unscanned position between the two visits
C32_Witness ==
    /\ Len(visitedPositions) = 4
    /\ visitedPositions[2] = [horizontal |-> 1, depth |-> 0]
    /\ visitedPositions[3] = [horizontal |-> 2, depth |-> 0]
    /\ visitedPositions[4] = [horizontal |-> 1, depth |-> 0]
    /\ Len(scannedData) = 3
    /\ scannedData[2].position = scannedData[3].position
    /\ scannedData[1].position = [horizontal |-> 0, depth |-> 0]

----------------------------------------------------------------------------
(* SubmarineFactory and the submarines it makes *)

ResearchMaxDepth == 5000
ResearchSampleDepth == 100

SubmarineType == {"BASIC", "ADVANCED", "MILITARY", "RESEARCH"}
Missions == {"combat", "exploration", "training"}

FactoryTexts ==
    { CommandText("forward", 1), CommandText("down", 1), CommandText("up", 1),
      CommandText("down", ResearchSampleDepth + 1),
      CommandText("forward", MilitaryMaxSpeed + 1),
      DirectionText("forward") }

\* SubmarineFactory.create: the class of the submarine returned
create(type) ==
    CASE type = "MILITARY" -> "MilitarySubmarine"
      [] type = "RESEARCH" -> "ResearchSubmarine"
      [] type \in {"BASIC", "ADVANCED"} -> "MilitarySubmarine"

\* SubmarineFactory.createByMission: the type handed to create
createByMission(mission) ==
    CASE mission = "combat" -> "MILITARY"
      [] mission = "exploration" -> "RESEARCH"
      [] mission = "training" -> "BASIC"

\* getType() of MilitarySubmarine and of ResearchSubmarine
getType(s) ==
    CASE s.class = "MilitarySubmarine" -> "MILITARY"
      [] s.class = "ResearchSubmarine" -> "RESEARCH"

\* ResearchSubmarine.executeCommand
ResearchAfter(s, commandStr) ==
    LET command == parseCommand(commandStr) IN
    IF ~ command.ok
    THEN [s EXCEPT !.call = LimitedCall(commandStr, "ParseError", "", <<>>)]
    ELSE LET moved == LimitedApply(s.position, command)
             samples == IF command.direction = "forward"
                           /\ moved.depth > ResearchSampleDepth
                        THEN s.samples + 1 ELSE s.samples IN
         IF moved.depth > ResearchMaxDepth
         THEN [s EXCEPT !.position = moved, !.samples = samples,
                        !.call = LimitedCall(commandStr, "Error",
                                             "Research depth limit exceeded", <<>>)]
         ELSE [s EXCEPT !.position = moved, !.samples = samples,
                        !.call = LimitedCall(commandStr, "ok", "", <<>>)]

\* executeCommand of the submarine the factory returned
FactoryAfter(s, commandStr) ==
    IF s.class = "ResearchSubmarine"
    THEN ResearchAfter(s, commandStr)
    ELSE LET m == MilitaryAfter([position |-> s.position, call |-> s.call], commandStr) IN
         [s EXCEPT !.position = m.position, !.call = m.call]

FactoryFrame ==
    UNCHANGED <<part1vars, part2vars, part3vars, comparevars, sign, machine,
                memento, observable, chain, limited, commander, decorator, heap, ordered>>

\* sub = SubmarineFactory.create(type)
FactoryCreate(type) ==
    /\ factory.count < MaxOps
    /\ factory' = [NoFactory EXCEPT !.requested = type, !.class = create(type),
                                    !.count = factory.count + 1]
    /\ FactoryFrame

\* sub = SubmarineFactory.createByMission(mission)
FactoryCreateByMission(mission) ==
    /\ factory.count < MaxOps
    /\ factory' = [NoFactory EXCEPT !.requested = createByMission(mission),
                                    !.mission = mission,
                                    !.class = create(createByMission(mission)),
                                    !.count = factory.count + 1]
    /\ FactoryFrame

\* sub.executeCommand(commandStr)
FactoryExecuteCommand(commandStr) ==
    /\ factory.class # "none"
    /\ factory.count < MaxOps
    /\ factory' = [FactoryAfter(factory, commandStr) EXCEPT !.count = factory.count + 1]
    /\ FactoryFrame

InitFactory ==
    Part1Constructed /\ Part2Constructed /\ Part3Constructed(NoScannerData) /\ AuxInit
NextFactory ==
    \/ \E t \in SubmarineType : FactoryCreate(t)
    \/ \E m \in Missions : FactoryCreateByMission(m)
    \/ \E t \in FactoryTexts : FactoryExecuteCommand(t)
SpecFactory == InitFactory /\ [][NextFactory]_vars

\* C33: the submarine SubmarineFactory.create(t) returns has getType() = t for
\* each of BASIC, ADVANCED, MILITARY and RESEARCH, and createByMission gives a
\* MILITARY submarine for combat, a RESEARCH one for exploration and a BASIC
\* one for training
C33_TypeAsRequested ==
    factory.class # "none" =>
        /\ getType(factory) = factory.requested
        /\ factory.mission = "combat" => getType(factory) = "MILITARY"
        /\ factory.mission = "exploration" => getType(factory) = "RESEARCH"
        /\ factory.mission = "training" => getType(factory) = "BASIC"

----------------------------------------------------------------------------
(* StateMachineSubmarine beside SubmarinePart2 *)

\* the same text given to a StateMachineSubmarine and to a SubmarinePart2
RefinedExecuteCommand(commandStr) ==
    LET command == parseCommand(commandStr) IN
    /\ machine.count < MaxCalls
    /\ machine' = MachineAfter(machine, commandStr)
    /\ IF ~ command.ok
       THEN /\ call2' = [text |-> commandStr, outcome |-> "ParseError"]
            /\ sub2' = sub2
       ELSE /\ call2' = [text |-> commandStr, outcome |-> "ok"]
            /\ sub2' = Part2Apply(sub2, command)
    /\ UNCHANGED <<sub1, call1, part3vars, comparevars, sign, memento,
                   observable, chain, limited, morevars>>

InitRefined ==
    Part1Constructed /\ Part2Constructed /\ Part3Constructed(NoScannerData) /\ AuxInit
NextRefined == \E t \in MachineTexts : RefinedExecuteCommand(t)
SpecRefined == InitRefined /\ [][NextRefined]_vars

\* the command of the step is an 'up' given while the state is SURFACED
UpWhileSurfaced ==
    /\ machine.context.currentState = "SURFACED"
    /\ parseCommand(machine'.call.text).ok
    /\ parseCommand(machine'.call.text).direction = "up"

SurfacedAtOrigin(m) ==
    m.context.currentState = "SURFACED" =>
        m.context.position.aim = 0 /\ m.context.position.depth = 0

\* C34: as long as no 'up' is issued while the state is SURFACED, the
\* (horizontal, depth, aim) of a StateMachineSubmarine after each command is
\* that of a SubmarinePart2 fed the same commands, and every reachable
\* SURFACED state has aim = 0 and depth = 0
C34_RefinesAimed ==
    /\ machine.context.position = sub2
    /\ SurfacedAtOrigin(machine)
    /\ [][ /\ (machine.context.position = sub2 /\ ~ UpWhileSurfaced)
                => machine'.context.position = sub2'
           /\ SurfacedAtOrigin(machine') ]_vars

\* after forward at the surface, a down that leaves it and a forward under
\* way, both submarines are at the same non-zero depth
C34_Witness ==
    /\ machine.count = 3
    /\ machine.context.currentState = "CRUISING"
    /\ machine.context.position = [horizontal |-> 2, depth |-> DiveThreshold, aim |-> DiveThreshold]
    /\ sub2 = machine.context.position

----------------------------------------------------------------------------
(* The states a StateMachineSubmarine reaches *)

\* the 'Unknown state' error of executeCommand was raised by the last call
UnknownStateRaised ==
    /\ machine.call.outcome = "Error"
    /\ machine.call.message # <<>>
    /\ machine.call.message[1] = "Unknown state:"

\* the step is a call that ended with an error of the state machine
Rejected ==
    /\ machine'.count = machine.count + 1
    /\ machine'.call.outcome = "Error"

----------------------------------------------------------------------------
(* The index of the SubmarineCaretaker *)

IndexInRange(c) ==
    /\ -1 <= c.currentIndex
    /\ c.currentIndex <= Len(c.mementos) - 1
    /\ c.currentIndex = -1 <=> c.mementos = <<>>

\* C36: after any interleaving of save, undo and redo,
\* -1 <= currentIndex <= mementos.length - 1, and currentIndex = -1 exactly
\* when no snapshot has been saved; right after save,
\* currentIndex = mementos.length - 1; undo and redo never change the number
\* of stored snapshots
C36_IndexInvariant ==
    /\ IndexInRange(memento)
    /\ [][ /\ IndexInRange(memento')
           /\ MementoCalled("save")
                => memento'.currentIndex = Len(memento'.mementos) - 1
           /\ (MementoCalled("undo") \/ MementoCalled("redo"))
                => Len(memento'.mementos) = Len(memento.mementos) ]_vars

\* three snapshots were saved, two undos went back to the first, and a save
\* there has cut the list to two snapshots with the index on the last
C36_Witness ==
    /\ memento.ops = 6
    /\ memento.last = [op |-> "save", returned |-> "void"]
    /\ Len(memento.mementos) = 2
    /\ memento.currentIndex = 1
    /\ memento.settledBefore.currentIndex = 0

----------------------------------------------------------------------------
(* The position objects of MementoSubmarine and SubmarineMemento *)

SnapshotTexts == { CommandText("forward", 1), CommandText("down", 1) }

\* { ...position }: a new object with the fields of the object given
CopyOf(h, id) == Append(h.objects, h.objects[id])

\* a MementoSubmarine.save() that keeps this.position itself in the memento
SaveShared(h) ==
    [h EXCEPT !.mementos = Append(h.mementos, h.submarine),
              !.saved = Append(h.saved, h.objects[h.submarine]),
              !.last = [op |-> "save", memento |-> Len(h.mementos) + 1],
              !.ops = h.ops + 1]

\* MementoSubmarine.save(): new SubmarineMemento({ ...this.position }, ...)
SaveCopy(h) ==
    [h EXCEPT !.objects = CopyOf(h, h.submarine),
              !.mementos = Append(h.mementos, Len(h.objects) + 1),
              !.saved = Append(h.saved, h.objects[h.submarine]),
              !.last = [op |-> "save", memento |-> Len(h.mementos) + 1],
              !.ops = h.ops + 1]

\* MementoSubmarine.restore(memento): this.position = memento.getPosition(),
\* which is { ...memento.position }
RestoreCopy(h, i) ==
    [h EXCEPT !.objects = CopyOf(h, h.mementos[i]),
              !.submarine = Len(h.objects) + 1,
              !.last = [op |-> "restore", memento |-> i],
              !.ops = h.ops + 1]

SnapshotFrame ==
    UNCHANGED <<part1vars, part2vars, part3vars, comparevars, sign, machine,
                memento, observable, chain, limited, commander, factory,
                decorator, ordered>>

\* MementoSubmarine.executeCommand: this.position is changed in place
SnapshotExecuteCommand(commandStr) ==
    LET command == parseCommand(commandStr) IN
    /\ heap.ops < MaxOps
    /\ heap' = IF ~ command.ok
               THEN [heap EXCEPT !.last = [op |-> "executeCommand", memento |-> 0],
                                 !.ops = heap.ops + 1]
               ELSE [heap EXCEPT !.objects[heap.submarine] =
                                     MementoApply(heap.objects[heap.submarine], command),
                                 !.last = [op |-> "executeCommand", memento |-> 0],
                                 !.ops = heap.ops + 1]
    /\ SnapshotFrame

\* memento = submarine.save(), kept by the caller
SnapshotSave ==
    /\ heap.ops < MaxOps
    /\ Len(heap.mementos) < MaxRun
    /\ heap' = SaveCopy(heap)
    /\ SnapshotFrame

\* submarine.restore(memento) with a memento saved earlier
SnapshotRestore(i) ==
    /\ heap.ops < MaxOps
    /\ i \in 1..Len(heap.mementos)
    /\ heap' = RestoreCopy(heap, i)
    /\ SnapshotFrame

\* submarine.getPosition(): the caller is handed { ...this.position }
SnapshotGetPosition ==
    /\ heap.ops < MaxOps
    /\ heap' = [heap EXCEPT !.objects = CopyOf(heap, heap.submarine),
                            !.handed = {Len(heap.objects) + 1},
                            !.last = [op |-> "getPosition", memento |-> 0],
                            !.ops = heap.ops + 1]
    /\ SnapshotFrame

\* getHistory(): the caller is handed m.getPosition() of every memento m,
\* each a { ...m.position }
SnapshotGetHistory ==
    /\ heap.ops < MaxOps
    /\ heap.mementos # <<>>
    /\ heap' = [heap EXCEPT
                   !.objects = heap.objects \o
                       [i \in 1..Len(heap.mementos) |-> heap.objects[heap.mementos[i]]],
                   !.handed = { Len(heap.objects) + i : i \in 1..Len(heap.mementos) },
                   !.last = [op |-> "getHistory", memento |-> 0],
                   !.ops = heap.ops + 1]
    /\ SnapshotFrame

\* the caller writes a field of an object it was handed
SnapshotMutate(id) ==
    /\ heap.ops < MaxOps
    /\ id \in heap.handed
    /\ heap' = [heap EXCEPT !.objects[id].horizontal = heap.objects[id].horizontal + MaxNav,
                            !.last = [op |-> "mutate", memento |-> 0],
                            !.ops = heap.ops + 1]
    /\ SnapshotFrame

InitSnapshot ==
    Part1Constructed /\ Part2Constructed /\ Part3Constructed(NoScannerData) /\ AuxInit
NextSnapshot ==
    \/ \E t \in SnapshotTexts : SnapshotExecuteCommand(t)
    \/ SnapshotSave
    \/ \E i \in 1..MaxRun : SnapshotRestore(i)
    \/ SnapshotGetPosition
    \/ SnapshotGetHistory
    \/ \E id \in heap.handed : SnapshotMutate(id)
SpecSnapshot == InitSnapshot /\ [][NextSnapshot]_vars

\* C37: commands executed after save(), later restores, and writes to the
\* positions handed out by getPosition or getHistory never change the
\* position stored in a memento, so every restore of a memento yields the
\* position the submarine had when that memento was saved, the second restore
\* as the first
C37_MementosImmutable ==
    /\ \A i \in 1..Len(heap.mementos) :
          heap.objects[heap.mementos[i]] = heap.saved[i]
    /\ heap.last.op = "restore" =>
          heap.objects[heap.submarine] = heap.saved[heap.last.memento]

\* a memento saved after one forward is restored after the caller wrote to
\* its position from getHistory and the submarine moved on
C37_Witness ==
    /\ heap.ops = 6
    /\ heap.last = [op |-> "restore", memento |-> 1]
    /\ heap.saved = <<[horizontal |-> 1, depth |-> 0, aim |-> 0]>>
    /\ \E id \in heap.handed : heap.objects[id].horizontal = 1 + MaxNav
    /\ heap.objects[heap.submarine] = [horizontal |-> 1, depth |-> 0, aim |-> 0]
    /\ \E id \in 1..Len(heap.objects) : heap.objects[id].horizontal = 2

----------------------------------------------------------------------------
(* The visited log against getPosition() *)

\* C38: in every state of SubmarinePart3 between calls (after construction,
\* after an executeCommand that returned and after one that threw) the last
\* entry of the visited log is the (horizontal, depth) getPosition() reports
C38_LastVisitedIsPosition ==
    LET position == getPosition(horizontal, depth, aim).own IN
    /\ visitedPositions # <<>>
    /\ visitedPositions[Len(visitedPositions)]
          = [horizontal |-> position.horizontal, depth |-> position.depth]

\* a call that changed the aim and then threw for want of scan data is
\* followed by a call that parseCommand refused and by one that returned
C38_Witness ==
    /\ Len(calls) = 3
    /\ calls[1].outcome = "TypeError"
    /\ calls[2].outcome = "ParseError"
    /\ calls[3].outcome = "ok"
    /\ horizontal = 10 /\ depth = 10
    /\ Len(visitedPositions) = 3
    /\ visitedPositions[2] = [horizontal |-> 0, depth |-> 0]

----------------------------------------------------------------------------
(* createDecoratedSubmarine and the decorators *)

DecoratorOptions ==
    [logging : BOOLEAN,
     validation : {[on |-> FALSE, maxDepth |-> 0], [on |-> TRUE, maxDepth |-> 0]},
     caching : BOOLEAN,
     telemetry : BOOLEAN]

DecoratorTexts ==
    { CommandText(d, 1) : d \in Directions } \cup { DirectionText("forward") }

\* BasicSubmarine.executeCommand: the decorated submarine after the call and
\* the error thrown, if any
BasicExecuteCommand(d, commandStr) ==
    LET command == parseCommand(commandStr) IN
    IF ~ command.ok
    THEN [d |-> d, threw |-> "ParseError"]
    ELSE [d |-> [d EXCEPT !.position = LimitedApply(d.position, command)],
          threw |-> "none"]

LogEntry(kind, text, position) ==
    [kind |-> kind, text |-> text,
     horizontal |-> position.horizontal, depth |-> position.depth]

\* LoggingDecorator.executeCommand after super.executeCommand: the position
\* entry is pushed unless the call threw
LoggingDone(r) ==
    IF r.threw # "none" THEN r
    ELSE [r EXCEPT !.d.commandLog =
             Append(r.d.commandLog, LogEntry("Position", <<>>, r.d.position))]

\* LoggingDecorator.executeCommand, when options.logging wrapped it around
LoggingExecuteCommand(d, commandStr) ==
    IF ~ d.options.logging THEN BasicExecuteCommand(d, commandStr)
    ELSE LoggingDone(BasicExecuteCommand(
             [d EXCEPT !.commandLog =
                 Append(d.commandLog,
                        LogEntry("Executing", commandStr,
                                 [horizontal |-> 0, depth |-> 0]))],
             commandStr))

\* ValidationDecorator.executeCommand after super.executeCommand
ValidationDone(r) ==
    IF r.threw # "none" THEN r
    ELSE IF r.d.position.depth > r.d.options.validation.maxDepth
         THEN [r EXCEPT !.threw = "Error"]
         ELSE r

\* ValidationDecorator.executeCommand, when options.validation wrapped it
ValidationExecuteCommand(d, commandStr) ==
    IF ~ d.options.validation.on THEN LoggingExecuteCommand(d, commandStr)
    ELSE ValidationDone(LoggingExecuteCommand(d, commandStr))

\* this.cache.has(commandStr)
CacheHas(cache, commandStr) == \E e \in cache : e.key = commandStr

\* this.cache.set(commandStr, this.getPosition()), unless the call threw
CachingDone(r, commandStr) ==
    IF r.threw # "none" THEN r
    ELSE [r EXCEPT !.d.cache =
             { e \in r.d.cache : e.key # commandStr }
                 \cup {[key |-> commandStr, value |-> r.d.position]}]

\* CachingDecorator.executeCommand, when options.caching wrapped it
CachingExecuteCommand(d, commandStr) ==
    IF ~ d.options.caching THEN ValidationExecuteCommand(d, commandStr)
    ELSE IF CacheHas(d.cache, commandStr) THEN [d |-> d, threw |-> "none"]
    ELSE CachingDone(ValidationExecuteCommand(d, commandStr), commandStr)

\* TelemetryDecorator.executeCommand after super.executeCommand
TelemetryDone(r, beforePos) ==
    IF r.threw # "none" THEN r
    ELSE [r EXCEPT !.d.commandCount = r.d.commandCount + 1,
                   !.d.totalDistance =
                       r.d.totalDistance
                           + Abs(r.d.position.horizontal - beforePos.horizontal)]

\* TelemetryDecorator.executeCommand, when options.telemetry wrapped it
TelemetryExecuteCommand(d, commandStr) ==
    IF ~ d.options.telemetry THEN CachingExecuteCommand(d, commandStr)
    ELSE TelemetryDone(CachingExecuteCommand(d, commandStr), d.position)

\* the decorated submarine and the caller's BasicSubmarine after the same text
DecoratorAfter(r, d, commandStr, command) ==
    [r.d EXCEPT !.basic = IF command.ok
                          THEN LimitedApply(d.basic, command)
                          ELSE d.basic,
                !.raised = d.raised \/ r.threw # "none" \/ ~ command.ok,
                !.call = [text |-> commandStr,
                          outcome |-> IF r.threw = "none" THEN "ok" ELSE r.threw],
                !.count = d.count + 1]

DecoratorFrame ==
    UNCHANGED <<part1vars, part2vars, part3vars, comparevars, sign, machine,
                memento, observable, chain, limited, commander, factory,
                heap, ordered>>

\* sub = createDecoratedSubmarine(options) and basic = new BasicSubmarine()
CreateDecoratedSubmarine(options) ==
    /\ ~ decorator.made
    /\ decorator' = [NoDecorator EXCEPT !.made = TRUE, !.options = options]
    /\ DecoratorFrame

\* sub.executeCommand(commandStr) and basic.executeCommand(commandStr)
DecoratorExecuteCommand(commandStr) ==
    /\ decorator.made
    /\ decorator.count < MaxCalls
    /\ decorator' = DecoratorAfter(TelemetryExecuteCommand(decorator, commandStr),
                                   decorator, commandStr, parseCommand(commandStr))
    /\ DecoratorFrame

InitDecorator ==
    Part1Constructed /\ Part2Constructed /\ Part3Constructed(NoScannerData) /\ AuxInit
NextDecorator ==
    \/ \E o \in DecoratorOptions : CreateDecoratedSubmarine(o)
    \/ \E t \in DecoratorTexts : DecoratorExecuteCommand(t)
SpecDecorator == InitDecorator /\ [][NextDecorator]_vars

\* getResult() of a submarine at the given position
ResultAt(position) == position.horizontal * position.depth

\* C39: for every option combination of createDecoratedSubmarine and every
\* command sequence that raises no error, getPosition() and getResult() are
\* those of an undecorated BasicSubmarine fed the same commands (so with
\* caching on, the same command text given twice moves the submarine twice)
C39_DecoratorsTransparent ==
    (decorator.made /\ ~ decorator.raised) =>
        /\ decorator.position = decorator.basic
        /\ ResultAt(decorator.position) = ResultAt(decorator.basic)

----------------------------------------------------------------------------
(* The order of the effects of ObservableSubmarine.executeCommand *)

\* the observer objects a caller subscribes: a PositionLogger and an observer
\* that writes to the object it is handed, and one CommandObserver
PositionObservers == {"logger", "writer"}
CommandObservers == {"history", "audit"}

\* Set.add(observer): the observer goes last unless it is in the set already
SetAdd(observers, observer) ==
    IF \E i \in 1..Len(observers) : observers[i] = observer
    THEN observers
    ELSE Append(observers, observer)

\* a notifyPositionObservers that hands this.position itself to the observers
OrderedNoSnapshot(position) ==
    [own |-> position, snap |-> position, handed |-> "own"]

\* const position = { ...this.position }: the submarine's own object, the
\* new object, and which of the two the observers are handed
OrderedSnapshot(position) ==
    [own |-> position, snap |-> position, handed |-> "snap"]

\* what an observer does with the object it is handed: the writer sets its
\* horizontal field, the PositionLogger only reads it
OnPositionChanged(observer, objs) ==
    IF observer = "writer"
    THEN [objs EXCEPT ![objs.handed].horizontal = -1]
    ELSE objs

Effect(effect, observer, seen, own) ==
    [effect |-> effect, observer |-> observer, seen |-> seen, own |-> own]

\* this.positionObservers.forEach(observer => observer.onPositionChanged(position)):
\* the objects and the effects after the observers were called in turn
RECURSIVE OrderedNotifyPosition(_, _, _)
OrderedNotifyPosition(observers, objs, events) ==
    IF observers = <<>> THEN [objs |-> objs, events |-> events]
    ELSE OrderedNotifyPosition(
             Tail(observers),
             OnPositionChanged(Head(observers), objs),
             Append(events, Effect("notifyPosition", Head(observers),
                                   objs[objs.handed], objs.own)))

\* this.commandObservers.forEach(observer => observer.onCommandExecuted(command))
RECURSIVE OrderedNotifyCommands(_, _, _)
OrderedNotifyCommands(observers, own, events) ==
    IF observers = <<>> THEN events
    ELSE OrderedNotifyCommands(
             Tail(observers), own,
             Append(events, Effect("notifyCommand", Head(observers), own, own)))

\* ObservableSubmarine.executeCommand: the switch, then
\* notifyPositionObservers(), then notifyCommandObservers(command)
OrderedAfter(s, commandStr) ==
    LET command == parseCommand(commandStr) IN
    IF ~ command.ok
    THEN [s EXCEPT !.events = <<>>,
                   !.call = [text |-> commandStr, outcome |-> "ParseError"],
                   !.count = s.count + 1]
    ELSE LET moved == ObservableApply(s.position, command)
             updated == <<Effect("update", "none", moved, moved)>>
             told == OrderedNotifyPosition(s.positionObservers,
                                           OrderedSnapshot(moved), updated)
         IN  [s EXCEPT !.position = told.objs.own,
                       !.events = OrderedNotifyCommands(s.commandObservers,
                                                        told.objs.own, told.events),
                       !.call = [text |-> commandStr, outcome |-> "ok"],
                       !.count = s.count + 1]

OrderedFrame ==
    UNCHANGED <<part1vars, part2vars, part3vars, comparevars, sign, machine,
                memento, observable, chain, limited, commander, factory,
                decorator, heap>>

OrderedSubscribeToPosition(observer) ==
    /\ ordered' = [ordered EXCEPT
                      !.positionObservers = SetAdd(ordered.positionObservers, observer)]
    /\ OrderedFrame

OrderedSubscribeToCommands(observer) ==
    /\ ordered' = [ordered EXCEPT
                      !.commandObservers = SetAdd(ordered.commandObservers, observer)]
    /\ OrderedFrame

OrderedExecuteCommand(commandStr) ==
    /\ ordered.count < MaxCalls
    /\ ordered' = OrderedAfter(ordered, commandStr)
    /\ OrderedFrame

InitOrdered ==
    Part1Constructed /\ Part2Constructed /\ Part3Constructed(NoScannerData) /\ AuxInit
NextOrdered ==
    \/ \E o \in PositionObservers : OrderedSubscribeToPosition(o)
    \/ \E o \in CommandObservers : OrderedSubscribeToCommands(o)
    \/ \E t \in ObservableTexts : OrderedExecuteCommand(t)
SpecOrdered == InitOrdered /\ [][NextOrdered]_vars

\* the step is an executeCommand that returned
OrderedReturned ==
    ordered'.count = ordered.count + 1 /\ ordered'.call.outcome = "ok"

\* C40: one command first updates the position, then notifies every position
\* observer, then every command observer; the position observers are handed a
\* copy, so that an observer writing to the object it receives does not
\* change the submarine's position
C40_EffectsInOrder ==
    [][ OrderedReturned =>
          LET e == ordered'.events
              np == Len(ordered.positionObservers)
              nc == Len(ordered.commandObservers)
              after == ObservableApply(ordered.position,
                                       parseCommand(ordered'.call.text))
          IN  /\ Len(e) = 1 + np + nc
              /\ e[1].effect = "update" /\ e[1].own = after
              /\ \A i \in 1..np :
                    /\ e[1 + i].effect = "notifyPosition"
                    /\ e[1 + i].observer = ordered.positionObservers[i]
                    /\ e[1 + i].own = after
              /\ np > 0 => e[2].seen = after
              /\ \A j \in 1..nc :
                    /\ e[1 + np + j].effect = "notifyCommand"
                    /\ e[1 + np + j].observer = ordered.commandObservers[j]
                    /\ e[1 + np + j].own = after
              /\ ordered'.position = after ]_vars

\* a writer subscribed before a logger and two command observers: the writer
\* was handed the new position and wrote to it, the logger was handed the
\* object written to, and the submarine is where the command put it
C40_Witness ==
    /\ ordered.call.outcome = "ok"
    /\ ordered.positionObservers = <<"writer", "logger">>
    /\ Len(ordered.commandObservers) = 2
    /\ Len(ordered.events) = 5
    /\ ordered.events[2].seen.horizontal = 2
    /\ ordered.events[3].seen.horizontal = -1
    /\ ordered.events[5].effect = "notifyCommand"
    /\ ordered.position.horizontal = 2

====
